---- MODULE Spec2Model ----
(***************************************************************************)
(* Client-side state machines of the marketplace Mini App:                 *)
(*   - AppContent (src/frontend/src/App.tsx, second definition, l.235-576):*)
(*     page/tab navigation, deep-link effect, unread-count poller;         *)
(*   - ToastProvider / ToastItem (src/frontend/src/components/Skeleton.tsx *)
(*     l.189-254);                                                         *)
(*   - PasscodeLock (Skeleton.tsx l.312-437);                              *)
(*   - ChatRoomPage (src/frontend/src/pages/ChatRoomPage.tsx l.12-85).     *)
(* Strings are sequences of one-character strings; the JavaScript value    *)
(* undefined/null is the sequence Undefined, which no string equals.       *)
(***************************************************************************)
EXTENDS Integers, Sequences, FiniteSets, TLC

VARIABLES
    \* ---- useAuth() / useTelegram() / window.location (inputs of AppContent)
    isLoading, isAuthenticated, authError, hasPasscode,
    webApp, startParam, startapp, hash,
    \* ---- AppContent state
    activeTab, page, unreadCount, lastUnreadRef, isUnlocked,
    unreadReqs,       \* chatsApi.getUnreadCount() calls awaiting their response
    chatCreateReqs,   \* chatsApi.create() calls awaiting their response
    \* ---- ToastProvider state
    toasts, timers, now,
    \* ---- PasscodeLock state
    passcode, error, loading, attempts, submitTimer, secret,
    \* ---- ChatRoomPage state
    mounted, chatId, chat, messages, chatLoading, newMessage, sending,
    closureMessages, pollReqs, loadReqs, sendReqs, serverMsgs, clock,
    \* ---- PasscodeSettings state
    settingsOpen, settingsHasPasscode, step, currentPasscode, newPasscode, confirmPasscode,
    settingsError, settingsLoading, advanceTimer, passcodeReqs,
    \* ---- MyListingsPage state
    listings,         \* the list shown: records of id and status
    listingReqs,      \* listingsApi.delete / markAsSold calls awaiting their response
    deletedIds,       \* history: the listings whose delete succeeded
    soldIds,          \* history: the listings whose mark-as-sold succeeded
    \* ---- CreateListingPage state
    images,           \* the image list of the form
    pendingReads,     \* FileReader.readAsDataURL calls still to complete
    \* ---- history variables (record what the last step did)
    lastOp, pre, lastTarget, observed, raisedAt, cue, consecutiveFails

appEnv   == <<isLoading, isAuthenticated, authError, hasPasscode, webApp, startParam, startapp, hash>>
appVars  == <<activeTab, page, unreadCount, lastUnreadRef, isUnlocked, unreadReqs, chatCreateReqs>>
toastVars == <<toasts, timers, now>>
lockVars == <<passcode, error, loading, attempts, submitTimer, secret>>
chatVars == <<mounted, chatId, chat, messages, chatLoading, newMessage, sending,
              closureMessages, pollReqs, loadReqs, sendReqs, serverMsgs, clock>>
settingsVars == <<settingsOpen, settingsHasPasscode, step, currentPasscode, newPasscode,
                  confirmPasscode, settingsError, settingsLoading, advanceTimer, passcodeReqs>>
listingsVars == <<listings, listingReqs, deletedIds, soldIds>>
formVars == <<images, pendingReads>>
\* the state of the page components other than ChatRoomPage
pageVars == <<settingsVars, listingsVars, formVars>>
histVars == <<lastOp, pre, lastTarget, observed, raisedAt, cue, consecutiveFails>>
vars == <<appEnv, appVars, toastVars, lockVars, chatVars, pageVars, histVars>>

(***************************************************************************)
(* Bounds of the model.                                                    *)
(***************************************************************************)
MaxObs       == 5   \* unread observations recorded between two tab switches
MaxReqs      == 2   \* requests of one kind in flight in AppContent
AppMaxCount  == 2   \* largest unread count the server reports (Spec)
AppMaxToasts == 2   \* toasts in the queue (Spec)
MaxAttempts  == 3   \* failed passcode verifications (SpecLock)
MaxToasts    == 2   \* toasts in the queue (SpecUnread, SpecToast)
MaxClock     == 1   \* instants of Date.now() after the first (SpecToast)
MaxMsgs      == 2   \* messages the server stores (SpecChat)
MaxList      == 3   \* entries of the message list shown (SpecChat)
MaxPolls     == 2   \* chat polls in flight (SpecChat)
MaxPasscodeReqs == 2 \* passcode requests in flight (SpecSettings)
MaxListingReqs == 2 \* delete / mark-as-sold requests in flight (SpecMyListings)
MaxReads     == 2   \* file reads in progress (SpecForm)
MaxFiles     == 2   \* files picked in one selection (SpecForm)

(***************************************************************************)
(* Strings.                                                                *)
(***************************************************************************)
Undefined == <<"undefined">>

\* JavaScript truthiness of an optional string: undefined and '' are falsy.
Truthy(s) == s # Undefined /\ s # <<>>

\* String.prototype.startsWith
startsWith(s, p) == Len(s) >= Len(p) /\ SubSeq(s, 1, Len(p)) = p

\* String.prototype.slice(n)
slice(s, n) == SubSeq(s, n + 1, Len(s))

\* the characters of the model's alphabet that the class [a-zA-Z0-9-] holds
IdChars == {"a", "b", "c", "l", "x", "-"}

\* hash.match(/^#\/l\/([a-zA-Z0-9-]+)$/): the captured group, or Undefined
hashMatch(h) ==
    IF /\ Len(h) >= 5
       /\ SubSeq(h, 1, 4) = <<"#", "/", "l", "/">>
       /\ \A i \in 5..Len(h) : h[i] \in IdChars
    THEN SubSeq(h, 5, Len(h))
    ELSE Undefined

(***************************************************************************)
(* Page State (App.tsx l.225-233).                                         *)
(***************************************************************************)
TabType == {"home", "post", "messages", "profile"}

Page(t, l, c, s) == [type |-> t, listingId |-> l, chatId |-> c, sellerId |-> s]
PageMain          == Page("main", Undefined, Undefined, Undefined)
PageListing(id)   == Page("listing", id, Undefined, Undefined)
PageEdit(id)      == Page("edit", id, Undefined, Undefined)
PageChatRoom(id)  == Page("chat-room", Undefined, id, Undefined)
PageSeller(id)    == Page("seller-profile", Undefined, Undefined, id)
PageMyListings    == Page("my-listings", Undefined, Undefined, Undefined)
PageFavorites     == Page("favorites", Undefined, Undefined, Undefined)
PageMyPurchases   == Page("my-purchases", Undefined, Undefined, Undefined)

\* a setPage that keeps the identifiers the target does not name
setPageMerging(prev, target) ==
    [type |-> target.type,
     listingId |-> IF target.listingId # Undefined THEN target.listingId ELSE prev.listingId,
     chatId |-> IF target.chatId # Undefined THEN target.chatId ELSE prev.chatId,
     sellerId |-> IF target.sellerId # Undefined THEN target.sellerId ELSE prev.sellerId]

\* the useState setter: the new value replaces the old one
setPage(prev, target) == target

\* identifiers the pages hand to the handlers (ids of records the API returned)
ListingIds == {<<"a">>, <<"b">>}
ChatIds    == {<<"c">>, <<"d">>}
SellerIds  == {<<"s">>}

(***************************************************************************)
(* ToastProvider (Skeleton.tsx l.189-207) and ToastItem (l.235-254).       *)
(* A toast is [id, type, duration, onClick]; duration is <<>> when the     *)
(* caller gave none and <<d>> otherwise; onClick names the handler or is   *)
(* "none".  A timer is [id, kind, ripe]: it runs                           *)
(* prev.filter(t => t.id !== id) at an instant later than the one it was   *)
(* set at (ripe: such an instant has come); kind "auto" is the timer of    *)
(* showToast, kind "dismiss" the one of ToastItem.handleDismiss, which     *)
(* calls hideToast(id).                                                    *)
(***************************************************************************)
DefaultDuration == 4000

NewToast(type, duration, onClick) == [type |-> type, duration |-> duration, onClick |-> onClick]

\* const id = Date.now().toString(): the instant of the call
toastId(t) == t

\* toast.duration ?? 4000
durationOf(toast) == IF toast.duration = <<>> THEN DefaultDuration ELSE toast.duration[1]

\* if (duration > 0) setTimeout(...)
autoDismiss(toast) == durationOf(toast) > 0

\* a filter that stops at the first toast of that id and drops the rest of the queue
removeByIdAndRest(queue, id) ==
    LET hits == {i \in 1..Len(queue) : queue[i].id = id}
    IN  IF hits = {} THEN queue
        ELSE SubSeq(queue, 1, (CHOOSE i \in hits : \A j \in hits : i <= j) - 1)

\* prev.filter((t) => t.id !== id)
removeById(queue, id) == SelectSeq(queue, LAMBDA t : t.id # id)

\* setToasts((prev) => [...prev, { ...toast, id }])
showToastQueue(queue, toast, t) ==
    Append(queue, [id |-> toastId(t), type |-> toast.type,
                   duration |-> toast.duration, onClick |-> toast.onClick])

showToastTimers(pending, toast, t) ==
    IF autoDismiss(toast)
    THEN pending \cup {[id |-> toastId(t), kind |-> "auto", ripe |-> FALSE]}
    ELSE pending

(***************************************************************************)
(* AppContent: what is rendered (App.tsx l.405-575).                       *)
(***************************************************************************)
\* the element AppContent returns once loading, error and lock are passed
Screen(p) ==
    CASE p.type = "create" -> "create"
      [] p.type = "my-listings" -> "my-listings"
      [] p.type = "favorites" -> "favorites"
      [] p.type = "my-purchases" -> "my-purchases"
      [] p.type = "seller-profile" /\ Truthy(p.sellerId) -> "seller-profile"
      [] p.type = "edit" /\ Truthy(p.listingId) -> "edit"
      [] p.type = "listing" /\ Truthy(p.listingId) -> "listing"
      [] p.type = "chat-room" /\ Truthy(p.chatId) -> "chat-room"
      [] OTHER -> "shell"

\* the gate that lets go at the first wrong code
needsPasscodeLockUntilError == isAuthenticated /\ hasPasscode /\ ~isUnlocked /\ ~error

\* const needsPasscodeLock = isAuthenticated && user?.has_passcode && !isUnlocked
needsPasscodeLock == isAuthenticated /\ hasPasscode /\ ~isUnlocked

\* the pages are rendered: not the loading screen, the error screen or the lock
Visible == ~isLoading /\ ~authError /\ ~needsPasscodeLock

BottomNavVisible == Visible /\ Screen(page) = "shell" /\ isAuthenticated /\ page.type = "main"

NoPre == [op |-> "none"]

(***************************************************************************)
(* Deep-link effect (App.tsx l.249-285).                                   *)
(***************************************************************************)
\* webApp?.initDataUnsafe?.start_param
seenStartParam == IF webApp = "null" THEN Undefined ELSE startParam

NoPage == Page("none", Undefined, Undefined, Undefined)

\* a resolution that looks at the URL hash before the two parameters
deepLinkTargetHashFirst(sp, sa, h) ==
    IF hashMatch(h) # Undefined THEN PageListing(hashMatch(h))
    ELSE IF sp # Undefined /\ startsWith(sp, <<"l", "_">>) THEN PageListing(slice(sp, 2))
    ELSE IF sa # Undefined /\ startsWith(sa, <<"l", "_">>) THEN PageListing(slice(sa, 2))
    ELSE NoPage

\* handleDeepLink: the argument of the setPage call it makes (NoPage: it makes none),
\* from start_param, the startapp query parameter and the hash
deepLinkTarget(sp, sa, h) ==
    IF sp # Undefined /\ startsWith(sp, <<"l", "_">>) THEN PageListing(slice(sp, 2))
    ELSE IF sa # Undefined /\ startsWith(sa, <<"l", "_">>) THEN PageListing(slice(sa, 2))
    ELSE IF hashMatch(h) # Undefined THEN PageListing(hashMatch(h))
    ELSE NoPage

\* the body of the effect, run with the start_param `sp` the render sees
handleDeepLink(sp) ==
    LET target == deepLinkTarget(sp, startapp, hash) IN
    /\ page' = IF target = NoPage THEN page ELSE setPage(page, target)
    /\ lastTarget' = IF target = NoPage THEN lastTarget ELSE target
    /\ lastOp' = "handleDeepLink"
    /\ pre' = [op |-> "handleDeepLink", page |-> page]

\* useAuth() finishes loading: both effects of AppContent run
\* (deep link: l.249-285; unread poll, initial check: l.288-321)
AuthDone(ok, pc) ==
    /\ isLoading
    /\ isLoading' = FALSE
    /\ isAuthenticated' = ok
    /\ authError' = ~ok
    /\ hasPasscode' = (ok /\ pc)
    /\ handleDeepLink(seenStartParam)
    /\ unreadReqs' = IF ok THEN unreadReqs + 1 ELSE unreadReqs
    /\ cue' = "none"
    /\ UNCHANGED <<webApp, startParam, startapp, hash>>
    /\ UNCHANGED <<activeTab, unreadCount, lastUnreadRef, isUnlocked, chatCreateReqs>>
    /\ UNCHANGED <<toastVars, lockVars, pageVars, chatVars, observed, raisedAt, consecutiveFails>>

\* useTelegram() hands out the host's WebApp object: the effect's dependency changes
WebAppReady ==
    /\ webApp = "null"
    /\ webApp' = "ready"
    /\ IF isLoading
       THEN /\ UNCHANGED <<page, lastTarget>>
            /\ lastOp' = "WebAppReady"
            /\ pre' = NoPre
       ELSE handleDeepLink(startParam)
    /\ cue' = "none"
    /\ UNCHANGED <<isLoading, isAuthenticated, authError, hasPasscode, startParam, startapp, hash>>
    /\ UNCHANGED <<activeTab, unreadCount, lastUnreadRef, isUnlocked, unreadReqs, chatCreateReqs>>
    /\ UNCHANGED <<toastVars, lockVars, pageVars, chatVars, observed, raisedAt, consecutiveFails>>

(***************************************************************************)
(* Navigation handlers (App.tsx l.349-403, callbacks of l.431-539).        *)
(***************************************************************************)
\* what every navigation step leaves alone in AppContent, toasts and lock; the
\* ChatRoomPage it may mount or unmount is ChatRoomLifecycle's
NavFrame ==
    /\ UNCHANGED <<appEnv, isUnlocked, unreadReqs>>
    /\ UNCHANGED <<toastVars, lockVars, pageVars, consecutiveFails>>

\* a step that calls setPage(target) and nothing else of AppContent
Goto(op, target) ==
    /\ page' = setPage(page, target)
    /\ lastTarget' = target
    /\ lastOp' = op
    /\ pre' = NoPre

\* a tab change that resets nothing
unreadAfterTabKept(tab, value) == value

\* if (tab === 'messages') { setUnreadCount(0); lastUnreadRef.current = 0; }
unreadAfterTab(tab, value) == IF tab = "messages" THEN 0 ELSE value

handleTabChange(tab) ==
    /\ BottomNavVisible
    /\ activeTab' = tab
    /\ page' = setPage(page, PageMain)
    /\ lastTarget' = PageMain
    /\ lastOp' = "handleTabChange"
    /\ pre' = [op |-> "handleTabChange", unreadCount |-> unreadCount,
               lastUnreadRef |-> lastUnreadRef]
    /\ unreadCount' = unreadAfterTab(tab, unreadCount)
    /\ lastUnreadRef' = unreadAfterTab(tab, lastUnreadRef)
    /\ cue' = "selection"
    /\ observed' = <<>>
    /\ raisedAt' = <<>>
    /\ UNCHANGED chatCreateReqs
    /\ NavFrame

\* the screens that hold an onOpenListing callback
CanOpenListing ==
    \/ Screen(page) = "shell" /\ activeTab = "home"
    \/ Screen(page) \in {"my-listings", "favorites", "my-purchases", "seller-profile", "chat-room"}

handleOpenListing(listingId) ==
    /\ Visible /\ CanOpenListing
    /\ Goto("handleOpenListing", PageListing(listingId))
    /\ cue' = "none"
    /\ UNCHANGED <<activeTab, unreadCount, lastUnreadRef, chatCreateReqs, observed, raisedAt>>
    /\ NavFrame

\* handleOpenChat up to its await: the request is sent
handleOpenChat ==
    /\ Visible /\ Screen(page) = "listing"
    /\ chatCreateReqs < MaxReqs
    /\ chatCreateReqs' = chatCreateReqs + 1
    /\ lastOp' = "handleOpenChat"
    /\ pre' = NoPre
    /\ cue' = "impact"
    /\ UNCHANGED <<page, lastTarget, activeTab, unreadCount, lastUnreadRef, observed, raisedAt>>
    /\ NavFrame

\* handleOpenChat after its await: chatsApi.create resolved with chat.id
handleOpenChatResolved(id) ==
    /\ chatCreateReqs > 0
    /\ chatCreateReqs' = chatCreateReqs - 1
    /\ Goto("handleOpenChatResolved", PageChatRoom(id))
    /\ activeTab' = "messages"
    /\ cue' = "none"
    /\ UNCHANGED <<unreadCount, lastUnreadRef, observed, raisedAt>>
    /\ NavFrame

\* handleOpenChat after its await: chatsApi.create rejected (console.error only)
handleOpenChatRejected ==
    /\ chatCreateReqs > 0
    /\ chatCreateReqs' = chatCreateReqs - 1
    /\ lastOp' = "handleOpenChatRejected"
    /\ pre' = NoPre
    /\ cue' = "none"
    /\ UNCHANGED <<page, lastTarget, activeTab, unreadCount, lastUnreadRef, observed, raisedAt>>
    /\ NavFrame

handleOpenChatRoom(id) ==
    /\ Visible /\ Screen(page) = "shell" /\ activeTab = "messages"
    /\ Goto("handleOpenChatRoom", PageChatRoom(id))
    /\ cue' = "none"
    /\ UNCHANGED <<activeTab, unreadCount, lastUnreadRef, chatCreateReqs, observed, raisedAt>>
    /\ NavFrame

handleEditListing(listingId) ==
    /\ Visible
    /\ \/ Screen(page) = "my-listings"
       \/ Screen(page) = "listing" /\ listingId = page.listingId
    /\ Goto("handleEditListing", PageEdit(listingId))
    /\ cue' = "none"
    /\ UNCHANGED <<activeTab, unreadCount, lastUnreadRef, chatCreateReqs, observed, raisedAt>>
    /\ NavFrame

\* handleOpenMyListings, handleOpenFavorites, handleOpenMyPurchases (ProfilePage)
handleOpenProfilePage(target) ==
    /\ Visible /\ Screen(page) = "shell" /\ activeTab = "profile"
    /\ Goto("handleOpenProfilePage", target)
    /\ cue' = "none"
    /\ UNCHANGED <<activeTab, unreadCount, lastUnreadRef, chatCreateReqs, observed, raisedAt>>
    /\ NavFrame

handleOpenSellerProfile(sellerId) ==
    /\ Visible /\ Screen(page) = "listing"
    /\ Goto("handleOpenSellerProfile", PageSeller(sellerId))
    /\ cue' = "none"
    /\ UNCHANGED <<activeTab, unreadCount, lastUnreadRef, chatCreateReqs, observed, raisedAt>>
    /\ NavFrame

\* a goBack that also selects the home tab
handleBackToHome ==
    /\ Visible /\ Screen(page) # "shell"
    /\ Goto("handleBack", PageMain)
    /\ activeTab' = "home"
    /\ cue' = "none"
    /\ UNCHANGED <<unreadCount, lastUnreadRef, chatCreateReqs, observed, raisedAt>>
    /\ NavFrame

\* handleBack, and the chat room's onBack (l.511-513)
handleBack ==
    /\ Visible /\ Screen(page) # "shell"
    /\ Goto("handleBack", PageMain)
    /\ cue' = "none"
    /\ UNCHANGED <<activeTab, unreadCount, lastUnreadRef, chatCreateReqs, observed, raisedAt>>
    /\ NavFrame

\* onSuccess of the create and edit pages: handleBack(); setActiveTab('home')
onSuccess ==
    /\ Visible /\ Screen(page) \in {"create", "edit"}
    /\ Goto("onSuccess", PageMain)
    /\ activeTab' = "home"
    /\ cue' = "none"
    /\ UNCHANGED <<unreadCount, lastUnreadRef, chatCreateReqs, observed, raisedAt>>
    /\ NavFrame

\* onCreateListing of MyListingsPage: setActiveTab('post')
onCreateListing ==
    /\ Visible /\ Screen(page) = "my-listings"
    /\ activeTab' = "post"
    /\ lastOp' = "onCreateListing"
    /\ pre' = NoPre
    /\ cue' = "impact"
    /\ UNCHANGED <<page, lastTarget, unreadCount, lastUnreadRef, chatCreateReqs, observed, raisedAt>>
    /\ NavFrame

\* onBack / onSuccess of the CreateListingPage inside the post tab: setActiveTab('home')
onPostTabDone ==
    /\ Visible /\ Screen(page) = "shell" /\ activeTab = "post"
    /\ activeTab' = "home"
    /\ lastOp' = "onPostTabDone"
    /\ pre' = NoPre
    /\ cue' = "none"
    /\ UNCHANGED <<page, lastTarget, unreadCount, lastUnreadRef, chatCreateReqs, observed, raisedAt>>
    /\ NavFrame

\* PasscodeLock's onUnlock: setIsUnlocked(true)
onUnlock ==
    /\ ~isLoading /\ ~authError /\ needsPasscodeLock
    /\ isUnlocked' = TRUE
    /\ lastOp' = "onUnlock"
    /\ pre' = NoPre
    /\ cue' = "success"
    /\ UNCHANGED <<appEnv, activeTab, page, unreadCount, lastUnreadRef, unreadReqs, chatCreateReqs>>
    /\ UNCHANGED <<toastVars, lockVars, pageVars, chatVars, lastTarget, observed, raisedAt, consecutiveFails>>


(***************************************************************************)
(* Unread-count poller (App.tsx l.288-321).                                *)
(***************************************************************************)
\* a toast on every increase of the count
raisesToastOnAnyIncrease(count, last) == count > last

\* count > lastUnreadRef.current && lastUnreadRef.current > 0
raisesToast(count, last) == count > last /\ last > 0

\* a baseline that is stored only when a toast was raised
nextBaselineOnToast(count, last) == IF raisesToast(count, last) THEN count ELSE last

\* lastUnreadRef.current = count
nextBaseline(count, last) == count

UnreadToast == NewToast("message", <<>>, "openMessages")

\* setInterval(checkUnread, 10000) fires: checkUnread up to its await
checkUnreadTick ==
    /\ isAuthenticated
    /\ unreadReqs < MaxReqs
    /\ unreadReqs' = unreadReqs + 1
    /\ lastOp' = "checkUnreadTick"
    /\ pre' = NoPre
    /\ cue' = "none"
    /\ UNCHANGED <<appEnv, activeTab, page, unreadCount, lastUnreadRef, isUnlocked, chatCreateReqs>>
    /\ UNCHANGED <<toastVars, lockVars, pageVars, chatVars, lastTarget, observed, raisedAt, consecutiveFails>>

\* checkUnread after its await: getUnreadCount() resolved with { count }
checkUnread(count) ==
    /\ unreadReqs > 0
    /\ unreadReqs' = unreadReqs - 1
    /\ unreadCount' = count
    /\ IF raisesToast(count, lastUnreadRef)
       THEN /\ toasts' = showToastQueue(toasts, UnreadToast, now)
            /\ timers' = showToastTimers(timers, UnreadToast, now)
            /\ cue' = "success"
       ELSE /\ UNCHANGED <<toasts, timers>>
            /\ cue' = "none"
    /\ lastUnreadRef' = nextBaseline(count, lastUnreadRef)
    /\ lastOp' = "checkUnread"
    /\ pre' = NoPre
    /\ UNCHANGED <<appEnv, activeTab, page, isUnlocked, chatCreateReqs, now>>
    /\ UNCHANGED <<lockVars, pageVars, chatVars, lastTarget, consecutiveFails>>

\* a failed tick that zeroes the count and the baseline
checkUnreadFailedReset ==
    /\ unreadReqs > 0
    /\ unreadReqs' = unreadReqs - 1
    /\ unreadCount' = 0
    /\ lastUnreadRef' = 0
    /\ lastOp' = "checkUnreadFailed"
    /\ pre' = NoPre
    /\ cue' = "none"
    /\ UNCHANGED <<appEnv, activeTab, page, isUnlocked, chatCreateReqs>>
    /\ UNCHANGED <<toastVars, lockVars, pageVars, chatVars, lastTarget, observed, raisedAt, consecutiveFails>>

\* checkUnread after its await: the request failed (catch: ignored)
checkUnreadFailed ==
    /\ unreadReqs > 0
    /\ unreadReqs' = unreadReqs - 1
    /\ lastOp' = "checkUnreadFailed"
    /\ pre' = NoPre
    /\ cue' = "none"
    /\ UNCHANGED <<appEnv, activeTab, page, unreadCount, lastUnreadRef, isUnlocked, chatCreateReqs>>
    /\ UNCHANGED <<toastVars, lockVars, pageVars, chatVars, lastTarget, observed, raisedAt, consecutiveFails>>

\* a resolved tick that is not recorded
checkUnreadResolved(count) == checkUnread(count) /\ UNCHANGED <<observed, raisedAt>>

\* a resolved tick, recorded: the count observed, and whether it raised a toast
checkUnreadObserved(count) ==
    /\ Len(observed) < MaxObs
    /\ checkUnread(count)
    /\ observed' = Append(observed, count)
    /\ raisedAt' = IF Len(toasts') > Len(toasts)
                   THEN Append(raisedAt, Len(observed) + 1) ELSE raisedAt

(***************************************************************************)
(* Toast interaction inside the application (Skeleton.tsx l.235-254,       *)
(* onClick of App.tsx l.303-306).                                          *)
(***************************************************************************)
\* the queue has room for the toast a tick with this count would raise
ToastRoom(limit, count) == raisesToast(count, lastUnreadRef) => Len(toasts) < limit

\* Date.now() moves on
Tick(limit) ==
    /\ now < limit
    /\ now' = now + 1
    /\ timers' = {[tm EXCEPT !.ripe = TRUE] : tm \in timers}
    /\ lastOp' = "Tick"
    /\ pre' = NoPre
    /\ cue' = "none"
    /\ UNCHANGED <<appEnv, appVars, toasts, lockVars, pageVars, chatVars>>
    /\ UNCHANGED <<lastTarget, observed, raisedAt, consecutiveFails>>

\* ToastItem.handleClick on the i-th toast: onClick(), then handleDismiss()
toastClick(i) ==
    /\ i \in 1..Len(toasts)
    /\ toasts[i].onClick = "openMessages"
    /\ activeTab' = "messages"
    /\ Goto("toastClick", PageMain)
    /\ timers' = timers \cup {[id |-> toasts[i].id, kind |-> "dismiss", ripe |-> FALSE]}
    /\ cue' = "none"
    /\ UNCHANGED <<appEnv, unreadCount, lastUnreadRef, isUnlocked, unreadReqs, chatCreateReqs>>
    /\ UNCHANGED <<toasts, now, lockVars, pageVars, observed, raisedAt, consecutiveFails>>

\* a timer set by showToast or by handleDismiss runs: the toasts with its id go
timerFires(tm) ==
    /\ tm \in timers
    /\ tm.ripe
    /\ toasts' = removeById(toasts, tm.id)
    /\ timers' = timers \ {tm}
    /\ lastOp' = IF tm.kind = "dismiss" THEN "hideToast" ELSE "timerFires"
    /\ pre' = [op |-> "timer", id |-> tm.id]
    /\ cue' = "none"
    /\ UNCHANGED <<appEnv, appVars, now, lockVars, pageVars, chatVars>>
    /\ UNCHANGED <<lastTarget, observed, raisedAt, consecutiveFails>>

(***************************************************************************)
(* Initial states.                                                         *)
(***************************************************************************)
ToastInit == toasts = <<>> /\ timers = {} /\ now = 0

LockInit ==
    /\ passcode = <<>> /\ error = FALSE /\ loading = FALSE /\ attempts = 0
    /\ submitTimer = FALSE /\ secret = <<>>     \* secret is read in SpecLock only

ChatInit ==
    /\ mounted = FALSE /\ chatId = Undefined /\ chat = FALSE /\ messages = <<>>
    /\ chatLoading = TRUE /\ newMessage = <<>> /\ sending = FALSE
    /\ closureMessages = <<>> /\ pollReqs = <<>> /\ loadReqs = {} /\ sendReqs = {}
    /\ serverMsgs = <<>> /\ clock = 0

\* no PasscodeSettings is mounted
SettingsInit ==
    /\ settingsOpen = FALSE /\ settingsHasPasscode = FALSE /\ step = "current"
    /\ currentPasscode = <<>> /\ newPasscode = <<>> /\ confirmPasscode = <<>>
    /\ settingsError = "" /\ settingsLoading = FALSE
    /\ advanceTimer = <<>> /\ passcodeReqs = <<>>

\* no MyListingsPage is mounted
ListingsInit == listings = <<>> /\ listingReqs = <<>> /\ deletedIds = {} /\ soldIds = {}

\* CreateListingPage: useState<string[]>([])
FormInit == images = <<>> /\ pendingReads = 0

PagesInit == SettingsInit /\ ListingsInit /\ FormInit

HistInit ==
    /\ lastOp = "init" /\ pre = NoPre /\ lastTarget = PageMain
    /\ observed = <<>> /\ raisedAt = <<>> /\ cue = "none" /\ consecutiveFails = 0

\* AppContent after its first render: useAuth() is still loading
AppInit ==
    /\ isLoading = TRUE /\ isAuthenticated = FALSE /\ authError = FALSE /\ hasPasscode = FALSE
    /\ activeTab = "home" /\ page = PageMain
    /\ unreadCount = 0 /\ lastUnreadRef = 0 /\ isUnlocked = FALSE
    /\ unreadReqs = 0 /\ chatCreateReqs = 0

\* the application opened without a deep link
NoDeepLink == webApp = "ready" /\ startParam = Undefined /\ startapp = Undefined /\ hash = <<>>

Init == AppInit /\ NoDeepLink /\ ToastInit /\ LockInit /\ ChatInit /\ PagesInit /\ HistInit

(***************************************************************************)
(* Spec: the application, navigation with the unread poller and its toasts, *)
(* within one instant of Date.now(): the toasts raised stay in the queue   *)
(* (their timers, and the passing of time, are in SpecToast).  The state   *)
(* of the page components is left out (ChatRoomPage: SpecChat).            *)
(***************************************************************************)
Next ==
    \/ \E ok \in BOOLEAN, pc \in BOOLEAN : AuthDone(ok, pc)
    \/ onUnlock
    \/ \E tab \in TabType : handleTabChange(tab) /\ UNCHANGED chatVars
    \/ \E id \in ListingIds : handleOpenListing(id) /\ UNCHANGED chatVars
    \/ handleOpenChat /\ UNCHANGED chatVars
    \/ \E id \in ChatIds : handleOpenChatResolved(id) /\ UNCHANGED chatVars
    \/ handleOpenChatRejected /\ UNCHANGED chatVars
    \/ \E id \in ChatIds : handleOpenChatRoom(id) /\ UNCHANGED chatVars
    \/ \E id \in ListingIds : handleEditListing(id) /\ UNCHANGED chatVars
    \/ \E t \in {PageMyListings, PageFavorites, PageMyPurchases} :
          handleOpenProfilePage(t) /\ UNCHANGED chatVars
    \/ \E id \in SellerIds : handleOpenSellerProfile(id) /\ UNCHANGED chatVars
    \/ handleBack /\ UNCHANGED chatVars
    \/ onSuccess /\ UNCHANGED chatVars
    \/ onCreateListing /\ UNCHANGED chatVars
    \/ onPostTabDone /\ UNCHANGED chatVars
    \/ checkUnreadTick
    \/ \E c \in 0..AppMaxCount : ToastRoom(AppMaxToasts, c) /\ checkUnreadResolved(c)
    \/ checkUnreadFailed
    \/ \E i \in 1..Len(toasts) : toastClick(i) /\ UNCHANGED chatVars

Spec == Init /\ [][Next]_vars

(***************************************************************************)
(* SpecUnread: the unread poller observed tick by tick.  The counts are    *)
(* those of the scenario 0, 0, 3, 3, 5; the toasts raised stay in the      *)
(* queue (no instant passes).                                              *)
(***************************************************************************)
UnreadCounts == {0, 3, 5}

NextUnread ==
    \/ \E ok \in BOOLEAN : AuthDone(ok, FALSE)
    \/ \E tab \in TabType : handleTabChange(tab) /\ UNCHANGED chatVars
    \/ checkUnreadTick
    \/ \E c \in UnreadCounts : ToastRoom(MaxToasts, c) /\ checkUnreadObserved(c)
    \/ checkUnreadFailed

SpecUnread == Init /\ [][NextUnread]_vars

(***************************************************************************)
(* SpecDeepLink: the deep-link effect over the three sources.              *)
(***************************************************************************)
StartParams == {Undefined, <<"l", "_">>, <<"l", "_", "a">>, <<"x", "_", "a">>, <<"l">>}
StartappParams == {Undefined, <<"l", "_">>, <<"l", "_", "b">>, <<"b">>}
Hashes == {<<>>, <<"#", "/", "l", "/", "c">>, <<"#", "/", "l", "/">>,
           <<"#", "/", "l", "/", "c", "/">>, <<"#", "/", "x", "/", "c">>}

InitDeepLink ==
    /\ AppInit /\ ToastInit /\ LockInit /\ ChatInit /\ PagesInit /\ HistInit
    /\ webApp \in {"null", "ready"}
    /\ startParam \in StartParams
    /\ startapp \in StartappParams
    /\ hash \in Hashes

NextDeepLink ==
    \/ \E ok \in BOOLEAN : AuthDone(ok, FALSE)
    \/ WebAppReady
    \/ \E tab \in TabType : handleTabChange(tab) /\ UNCHANGED chatVars
    \/ \E id \in ListingIds : handleOpenListing(id) /\ UNCHANGED chatVars
    \/ handleBack /\ UNCHANGED chatVars

SpecDeepLink == InitDeepLink /\ [][NextDeepLink]_vars

(***************************************************************************)
(* SpecToast: the toast queue under arbitrary callers of showToast and      *)
(* hideToast.                                                              *)
(***************************************************************************)
ToastInputs ==
    {NewToast("info", d, h) : d \in {<<>>, <<0>>, <<-1>>}, h \in {"none", "handler"}}

\* showToast(toast) at the instant `now`
showToast(toast) ==
    /\ Len(toasts) < MaxToasts
    /\ toasts' = showToastQueue(toasts, toast, now)
    /\ timers' = showToastTimers(timers, toast, now)
    /\ lastOp' = "showToast"
    /\ pre' = NoPre
    /\ cue' = "none"
    /\ UNCHANGED <<appEnv, appVars, now, lockVars, pageVars, chatVars>>
    /\ UNCHANGED <<lastTarget, observed, raisedAt, consecutiveFails>>

\* hideToast(id), called by a client of the context
hideToast(id) ==
    /\ toasts' = removeById(toasts, id)
    /\ lastOp' = "hideToast"
    /\ pre' = [op |-> "hideToast", id |-> id, len |-> Len(toasts)]
    /\ cue' = "none"
    /\ UNCHANGED <<appEnv, appVars, timers, now, lockVars, pageVars, chatVars>>
    /\ UNCHANGED <<lastTarget, observed, raisedAt, consecutiveFails>>

\* the X button of the i-th toast: handleDismiss, setTimeout(onDismiss, 200)
handleDismiss(i) ==
    /\ i \in 1..Len(toasts)
    /\ timers' = timers \cup {[id |-> toasts[i].id, kind |-> "dismiss", ripe |-> FALSE]}
    /\ lastOp' = "handleDismiss"
    /\ pre' = NoPre
    /\ cue' = "none"
    /\ UNCHANGED <<appEnv, appVars, toasts, now, lockVars, pageVars, chatVars>>
    /\ UNCHANGED <<lastTarget, observed, raisedAt, consecutiveFails>>

NextToast ==
    \/ \E toast \in ToastInputs : showToast(toast)
    \/ \E id \in 0..MaxClock : hideToast(id)
    \/ \E i \in 1..Len(toasts) : handleDismiss(i)
    \/ \E tm \in timers : timerFires(tm)
    \/ Tick(MaxClock)

SpecToast == Init /\ [][NextToast]_vars

(***************************************************************************)
(* SpecLock: PasscodeLock (Skeleton.tsx l.312-437) in a session whose user *)
(* has a passcode.  `secret` is the passcode the server holds.             *)
(***************************************************************************)
Digits == {"1", "2"}
Secrets == {<<"1", "2", "1", "2">>, <<"2", "2", "2", "2">>}

\* AppContent returns <PasscodeLock/> (App.tsx l.405-428)
LockRendered == ~isLoading /\ ~authError /\ needsPasscodeLock

\* {attempts >= 2 && (<button ...>Forgot passcode?</button>)}
ResetLinkVisible == LockRendered /\ attempts >= 2

\* usersApi.verifyPasscode(code) resolves (TRUE) or rejects with a wrong code
verifyPasscode(code) == code = secret

\* a failure that sets the counter from the value the render saw first
attemptsAfterFailureStale(prev) == 1

\* setAttempts((prev) => prev + 1)
attemptsAfterFailure(prev) == prev + 1

\* the effect on [passcode]: the old timer is cleared, a new one set at 4 digits
autoSubmitTimer(code) == Len(code) = 4

LockFrame ==
    /\ UNCHANGED <<appEnv, activeTab, page, unreadCount, lastUnreadRef, unreadReqs, chatCreateReqs>>
    /\ UNCHANGED pageVars
    /\ UNCHANGED <<toastVars, chatVars, secret, lastTarget, observed, raisedAt>>

handleDigit(digit) ==
    /\ LockRendered /\ ~loading
    /\ Len(passcode) < 4
    /\ error' = FALSE
    /\ passcode' = Append(passcode, digit)
    /\ submitTimer' = autoSubmitTimer(passcode')
    /\ lastOp' = "handleDigit"
    /\ pre' = NoPre
    /\ cue' = "impact"
    /\ UNCHANGED <<loading, attempts, isUnlocked, consecutiveFails>>
    /\ LockFrame

handleDelete ==
    /\ LockRendered /\ ~loading
    /\ passcode' = SubSeq(passcode, 1, Len(passcode) - 1)
    /\ submitTimer' = autoSubmitTimer(passcode')
    /\ lastOp' = "handleDelete"
    /\ pre' = NoPre
    /\ cue' = "impact"
    /\ UNCHANGED <<error, loading, attempts, isUnlocked, consecutiveFails>>
    /\ LockFrame

\* the 300 ms timer runs handleSubmit up to its await
handleSubmit ==
    /\ LockRendered /\ submitTimer
    /\ attempts < MaxAttempts
    /\ submitTimer' = FALSE
    /\ IF Len(passcode) # 4
       THEN UNCHANGED loading
       ELSE loading' = TRUE
    /\ lastOp' = "handleSubmit"
    /\ pre' = NoPre
    /\ cue' = "none"
    /\ UNCHANGED <<passcode, error, attempts, isUnlocked, consecutiveFails>>
    /\ LockFrame

\* handleSubmit after its await: verifyPasscode resolved
handleSubmitVerified ==
    /\ loading
    /\ verifyPasscode(passcode)
    /\ attempts' = 0
    /\ isUnlocked' = TRUE
    /\ loading' = FALSE
    /\ consecutiveFails' = 0
    /\ lastOp' = "handleSubmitVerified"
    /\ pre' = NoPre
    /\ cue' = "success"
    /\ UNCHANGED <<passcode, error, submitTimer>>
    /\ LockFrame

\* handleSubmit after its await: verifyPasscode rejected (wrong code, or no answer)
handleSubmitFailed ==
    /\ loading
    /\ error' = TRUE
    /\ passcode' = <<>>
    /\ attempts' = attemptsAfterFailure(attempts)
    /\ loading' = FALSE
    /\ submitTimer' = autoSubmitTimer(passcode')
    /\ consecutiveFails' = consecutiveFails + 1
    /\ lastOp' = "handleSubmitFailed"
    /\ pre' = NoPre
    /\ cue' = "error"
    /\ UNCHANGED isUnlocked
    /\ LockFrame

\* the reset link: a popup of the host, no state of the lock changes
handleResetRequest ==
    /\ ResetLinkVisible
    /\ lastOp' = "handleResetRequest"
    /\ pre' = NoPre
    /\ cue' = "impact"
    /\ UNCHANGED <<passcode, error, loading, attempts, submitTimer, isUnlocked, consecutiveFails>>
    /\ LockFrame

InitLock ==
    /\ AppInit /\ NoDeepLink /\ ToastInit /\ ChatInit /\ PagesInit /\ HistInit
    /\ passcode = <<>> /\ error = FALSE /\ loading = FALSE /\ attempts = 0
    /\ submitTimer = FALSE
    /\ secret \in Secrets

NextLock ==
    \/ AuthDone(TRUE, TRUE)
    \/ \E d \in Digits : handleDigit(d)
    \/ handleDelete
    \/ handleSubmit
    \/ handleSubmitVerified
    \/ handleSubmitFailed
    \/ handleResetRequest

SpecLock == InitLock /\ [][NextLock]_vars

(***************************************************************************)
(* Properties.                                                             *)
(***************************************************************************)
\* the identifier fields the variant of a Page State carries
OwnIdentifiers(type) ==
    CASE type \in {"listing", "edit"} -> {"listingId"}
      [] type = "chat-room" -> {"chatId"}
      [] type = "seller-profile" -> {"sellerId"}
      [] OTHER -> {}

\* C1: after every sequence of page transitions the Page State is the argument of
\* the last setPage call executed, and it carries no identifier of an earlier page.
C1_PageIsLastTarget ==
    /\ page = lastTarget
    /\ \A f \in {"listingId", "chatId", "sellerId"} \ OwnIdentifiers(page.type) :
          page[f] = Undefined

\* C1 witness: the asynchronous chat-open handler resolved after other transitions
C1_Witness ==
    /\ lastOp = "handleOpenChatResolved"
    /\ page = PageChatRoom(<<"d">>)
    /\ activeTab = "messages"

\* C2: the Page State never names a variant that requires an identifier without a
\* non-empty identifier (a transition with a missing or empty one is a no-op).
C2_RequiredIdentifierPresent ==
    \A f \in OwnIdentifiers(page.type) : Truthy(page[f])

\* C3: selecting the messages tab sets the unread count and its baseline to zero.
C3_MessagesTabResetsUnread ==
    (lastOp = "handleTabChange" /\ activeTab = "messages")
        => (unreadCount = 0 /\ lastUnreadRef = 0)

\* C3 witness: the messages tab was selected while count and baseline were nonzero
C3_Witness ==
    /\ lastOp = "handleTabChange" /\ activeTab = "messages"
    /\ pre.unreadCount > 0 /\ pre.lastUnreadRef > 0

\* C4 as stated: the counts 0, 0, 3, 3, 5 raise two toasts, on the 3rd and 5th tick.
C4_TwoToasts == observed = <<0, 0, 3, 3, 5>> => raisedAt = <<3, 5>>

\* C4 amended: the counts 0, 0, 3, 3, 5 raise exactly one toast, on the 5th tick
\* (3 to 5); none on 0 to 0, 0 to 3, 3 to 3 or the first observation.
C4_OneToast == observed = <<0, 0, 3, 3, 5>> => raisedAt = <<5>>

\* C4 witness: the five counts were observed
C4_Witness == observed = <<0, 0, 3, 3, 5>> /\ Len(toasts) >= 1

\* C5: a successful tick raises exactly one toast iff the new count exceeds a nonzero
\* baseline, raises none otherwise, and stores the new count as the baseline.
C5_TickRule ==
    [][lastOp' = "checkUnread" =>
        /\ Len(toasts') = Len(toasts) + 1
              <=> (unreadCount' > lastUnreadRef /\ lastUnreadRef # 0)
        /\ Len(toasts') \in {Len(toasts), Len(toasts) + 1}
        /\ lastUnreadRef' = unreadCount']_vars

\* C5 witness: a tick raised a toast
C5_Witness ==
    /\ lastOp = "checkUnread" /\ cue = "success"
    /\ Len(toasts) = 1 /\ lastUnreadRef = unreadCount /\ unreadCount > 1

\* a launch or query parameter of the form l_<id>
IsLinkParam(s) == s # Undefined /\ Len(s) >= 2 /\ s[1] = "l" /\ s[2] = "_"
LinkId(s) == SubSeq(s, 3, Len(s))

\* C10: deep-link resolution opens the listing of the first matching source among
\* launch parameter, query parameter, hash; with no match the Page State is unchanged.
C10_DeepLinkPrecedence ==
    lastOp = "handleDeepLink" =>
        IF IsLinkParam(seenStartParam) THEN page = PageListing(LinkId(seenStartParam))
        ELSE IF IsLinkParam(startapp) THEN page = PageListing(LinkId(startapp))
        ELSE IF hashMatch(hash) # Undefined THEN page = PageListing(hashMatch(hash))
        ELSE page = pre.page

\* C10 witness: launch parameter and hash name different listings, the launch one is open
C10_Witness ==
    /\ lastOp = "handleDeepLink"
    /\ IsLinkParam(seenStartParam) /\ hashMatch(hash) # Undefined
    /\ LinkId(seenStartParam) # hashMatch(hash)
    /\ page.listingId = <<"a">>

\* C8: a toast of duration <= 0 leaves the queue only through hideToast for its id:
\* no later showToast and no timer removes it.
C8_PersistentToastStays ==
    [][\A i \in 1..Len(toasts) :
          (durationOf(toasts[i]) <= 0 /\ ~(lastOp' = "hideToast" /\ pre'.id = toasts[i].id))
              => \E j \in 1..Len(toasts') : toasts'[j] = toasts[i]]_vars

\* C9: a failed verification of 4 digits sets the error state, clears the digits and
\* adds exactly 1 to the failure counter; the reset link shows exactly from the 2nd
\* consecutive failure on; a successful verification zeroes the counter and unlocks.
C9_PasscodeFailures ==
    /\ [][/\ lastOp' = "handleSubmitFailed" =>
                (Len(passcode) = 4 /\ error' /\ passcode' = <<>> /\ attempts' = attempts + 1)
          /\ lastOp' = "handleSubmitVerified" => (attempts' = 0 /\ isUnlocked')]_vars
    /\ [](ResetLinkVisible <=> (LockRendered /\ consecutiveFails >= 2))

\* C9 witness: the second consecutive failure, the reset link is shown
C9_Witness ==
    /\ lastOp = "handleSubmitFailed" /\ consecutiveFails = 2
    /\ error /\ passcode = <<>> /\ attempts = 2 /\ ResetLinkVisible

(***************************************************************************)
(* SpecChat: ChatRoomPage under the application's navigation.  AppContent  *)
(* returns <ChatRoomPage chatId=.../> while the page is a chat room: a     *)
(* transition into a chat room mounts it, one out of it unmounts it, and a *)
(* transition from one chat room to another keeps the instance and changes *)
(* its chatId prop.  Every request is three steps: the call, the server's  *)
(* answer, and the continuation in the component.                          *)
(***************************************************************************)
\* a stored message; created_at is its id, ids grow with the server's clock
Message(n, c) == [id |-> n, chat |-> c]

created_at(m) == m.id

\* chatsApi.get(chatId): data.messages, the chat's messages in arrival order
getChat(c) == SelectSeq(serverMsgs, LAMBDA m : m.chat = c)

\* chatsApi.getMessages(chatId, since): the chat's messages newer than since
getMessages(c, since) == SelectSeq(serverMsgs, LAMBDA m : m.chat = c /\ created_at(m) > since)

RECURSIVE trimStart(_)
trimStart(str) == IF str # <<>> /\ Head(str) = " " THEN trimStart(Tail(str)) ELSE str

RECURSIVE trimEnd(_)
trimEnd(str) ==
    IF str # <<>> /\ str[Len(str)] = " " THEN trimEnd(SubSeq(str, 1, Len(str) - 1)) ELSE str

trim(str) == trimEnd(trimStart(str))

\* texts typed into the input
Texts == {<<"h">>, <<" ">>}

RemoveAt(q, i) == SubSeq(q, 1, i - 1) \o SubSeq(q, i + 1, Len(q))

LoadReq(c) == [chat |-> c, answered |-> FALSE, data |-> <<>>]

\* useState initial values, then the effect: loadChat() and setInterval(pollMessages);
\* the interval keeps the pollMessages of this render, whose messages are []
mountChatRoom(c) ==
    /\ mounted' = TRUE /\ chatId' = c
    /\ chat' = FALSE /\ messages' = <<>> /\ chatLoading' = TRUE
    /\ newMessage' = <<>> /\ sending' = FALSE
    /\ closureMessages' = <<>>
    /\ loadReqs' = {LoadReq(c)}
    /\ pollReqs' = <<>> /\ sendReqs' = {}
    /\ UNCHANGED <<serverMsgs, clock>>

\* the chatId prop changes: state is kept, the effect's cleanup clears the interval
\* and the effect runs again; the new interval keeps the pollMessages of this render,
\* whose messages are the list shown now
chatIdChanged(c) ==
    /\ chatId' = c
    /\ chatLoading' = TRUE
    /\ closureMessages' = messages
    /\ loadReqs' = loadReqs \cup {LoadReq(c)}
    /\ UNCHANGED <<mounted, chat, messages, newMessage, sending>>
    /\ UNCHANGED <<pollReqs, sendReqs, serverMsgs, clock>>

\* the instance goes away: its state is dropped, the interval is cleared, and the
\* continuations of its requests set the state of no mounted component
unmountChatRoom ==
    /\ mounted' = FALSE /\ chatId' = Undefined
    /\ chat' = FALSE /\ messages' = <<>> /\ chatLoading' = TRUE
    /\ newMessage' = <<>> /\ sending' = FALSE
    /\ closureMessages' = <<>>
    /\ loadReqs' = {} /\ pollReqs' = <<>> /\ sendReqs' = {}
    /\ UNCHANGED <<serverMsgs, clock>>

\* what a page transition does to the ChatRoomPage instance
ChatRoomLifecycle ==
    IF Screen(page') = "chat-room"
    THEN IF ~mounted THEN mountChatRoom(page'.chatId)
         ELSE IF page'.chatId # chatId THEN chatIdChanged(page'.chatId)
         ELSE UNCHANGED chatVars
    ELSE IF mounted THEN unmountChatRoom
         ELSE UNCHANGED chatVars

\* what a step of ChatRoomPage leaves alone
ChatFrame ==
    /\ UNCHANGED <<appEnv, appVars, toastVars, lockVars, pageVars>>
    /\ UNCHANGED <<lastTarget, observed, raisedAt, consecutiveFails>>

\* the conversation is on screen: neither the spinner nor "not found"
ChatRendered == mounted /\ ~chatLoading /\ chat

\* the server answers chatsApi.get
loadAnswered(req) ==
    /\ req \in loadReqs /\ ~req.answered
    /\ loadReqs' = (loadReqs \ {req}) \cup
                       {[chat |-> req.chat, answered |-> TRUE, data |-> getChat(req.chat)]}
    /\ lastOp' = "loadAnswered" /\ pre' = NoPre /\ cue' = "none"
    /\ UNCHANGED <<mounted, chatId, chat, messages, chatLoading, newMessage, sending>>
    /\ UNCHANGED <<closureMessages, pollReqs, sendReqs, serverMsgs, clock>>
    /\ ChatFrame

\* loadChat after the await: setChat(data); setMessages(data.messages || []); finally
loadChatResolved(req) ==
    /\ req \in loadReqs /\ req.answered
    /\ loadReqs' = loadReqs \ {req}
    /\ chat' = TRUE
    /\ messages' = req.data
    /\ chatLoading' = FALSE
    /\ lastOp' = "loadChatResolved" /\ pre' = NoPre /\ cue' = "none"
    /\ UNCHANGED <<mounted, chatId, newMessage, sending>>
    /\ UNCHANGED <<closureMessages, pollReqs, sendReqs, serverMsgs, clock>>
    /\ ChatFrame

\* loadChat, catch and finally
loadChatRejected(req) ==
    /\ req \in loadReqs
    /\ loadReqs' = loadReqs \ {req}
    /\ chatLoading' = FALSE
    /\ lastOp' = "loadChatRejected" /\ pre' = NoPre /\ cue' = "none"
    /\ UNCHANGED <<mounted, chatId, chat, messages, newMessage, sending>>
    /\ UNCHANGED <<closureMessages, pollReqs, sendReqs, serverMsgs, clock>>
    /\ ChatFrame

\* the interval fires pollMessages: it returns at once when the messages it holds
\* are empty, else it asks for what is newer than the last of them
pollMessages ==
    /\ mounted
    /\ Len(pollReqs) < MaxPolls
    /\ pollReqs' =
           IF Len(closureMessages) = 0 THEN pollReqs
           ELSE Append(pollReqs, [chat |-> chatId,
                                  since |-> created_at(closureMessages[Len(closureMessages)]),
                                  answered |-> FALSE, data |-> <<>>])
    /\ lastOp' = "pollMessages" /\ pre' = NoPre /\ cue' = "none"
    /\ UNCHANGED <<mounted, chatId, chat, messages, chatLoading, newMessage, sending>>
    /\ UNCHANGED <<closureMessages, loadReqs, sendReqs, serverMsgs, clock>>
    /\ ChatFrame

\* the server answers chatsApi.getMessages
pollAnswered(i) ==
    /\ ~pollReqs[i].answered
    /\ pollReqs' = [pollReqs EXCEPT ![i].answered = TRUE,
                                    ![i].data = getMessages(pollReqs[i].chat, pollReqs[i].since)]
    /\ lastOp' = "pollAnswered" /\ pre' = NoPre /\ cue' = "none"
    /\ UNCHANGED <<mounted, chatId, chat, messages, chatLoading, newMessage, sending>>
    /\ UNCHANGED <<closureMessages, loadReqs, sendReqs, serverMsgs, clock>>
    /\ ChatFrame

\* merging whatever the length of the response
hasNewAlways(newMsgs) == TRUE

\* if (newMsgs.length > 0)
hasNew(newMsgs) == Len(newMsgs) > 0

\* pollMessages after the await: a non-empty response is appended and cued
pollMessagesResolved(i) ==
    /\ pollReqs[i].answered
    /\ Len(messages) + Len(pollReqs[i].data) <= MaxList
    /\ pollReqs' = RemoveAt(pollReqs, i)
    /\ messages' = IF hasNew(pollReqs[i].data) THEN messages \o pollReqs[i].data ELSE messages
    /\ cue' = IF hasNew(pollReqs[i].data) THEN "success" ELSE "none"
    /\ lastOp' = "pollMessagesResolved"
    /\ pre' = [op |-> "pollMessagesResolved", k |-> Len(pollReqs[i].data),
               setMessages |-> hasNew(pollReqs[i].data)]
    /\ UNCHANGED <<mounted, chatId, chat, chatLoading, newMessage, sending>>
    /\ UNCHANGED <<closureMessages, loadReqs, sendReqs, serverMsgs, clock>>
    /\ ChatFrame

\* pollMessages, catch: console.error only
pollMessagesRejected(i) ==
    /\ pollReqs' = RemoveAt(pollReqs, i)
    /\ lastOp' = "pollMessagesRejected" /\ pre' = NoPre /\ cue' = "none"
    /\ UNCHANGED <<mounted, chatId, chat, messages, chatLoading, newMessage, sending>>
    /\ UNCHANGED <<closureMessages, loadReqs, sendReqs, serverMsgs, clock>>
    /\ ChatFrame

\* the input's onChange
setNewMessage(text) ==
    /\ ChatRendered
    /\ newMessage # text
    /\ newMessage' = text
    /\ lastOp' = "setNewMessage" /\ pre' = NoPre /\ cue' = "none"
    /\ UNCHANGED <<mounted, chatId, chat, messages, chatLoading, sending>>
    /\ UNCHANGED <<closureMessages, pollReqs, loadReqs, sendReqs, serverMsgs, clock>>
    /\ ChatFrame

\* handleSend up to the await
handleSend ==
    /\ ChatRendered
    /\ trim(newMessage) # <<>> /\ ~sending
    /\ sending' = TRUE
    /\ newMessage' = <<>>
    /\ sendReqs' = sendReqs \cup {[chat |-> chatId, text |-> trim(newMessage),
                                   answered |-> FALSE, message |-> Message(0, chatId)]}
    /\ lastOp' = "handleSend" /\ pre' = NoPre /\ cue' = "impact"
    /\ UNCHANGED <<mounted, chatId, chat, messages, chatLoading>>
    /\ UNCHANGED <<closureMessages, pollReqs, loadReqs, serverMsgs, clock>>
    /\ ChatFrame

\* the server stores the message sent and answers with it
sendAnswered(req) ==
    /\ req \in sendReqs /\ ~req.answered
    /\ clock < MaxMsgs
    /\ clock' = clock + 1
    /\ serverMsgs' = Append(serverMsgs, Message(clock + 1, req.chat))
    /\ sendReqs' = (sendReqs \ {req}) \cup
                       {[req EXCEPT !.answered = TRUE, !.message = Message(clock + 1, req.chat)]}
    /\ lastOp' = "sendAnswered" /\ pre' = NoPre /\ cue' = "none"
    /\ UNCHANGED <<mounted, chatId, chat, messages, chatLoading, newMessage, sending>>
    /\ UNCHANGED <<closureMessages, pollReqs, loadReqs>>
    /\ ChatFrame

\* handleSend after the await: the message is appended; finally setSending(false)
handleSendResolved(req) ==
    /\ req \in sendReqs /\ req.answered
    /\ Len(messages) < MaxList
    /\ sendReqs' = sendReqs \ {req}
    /\ messages' = Append(messages, req.message)
    /\ sending' = FALSE
    /\ lastOp' = "handleSendResolved" /\ pre' = NoPre /\ cue' = "none"
    /\ UNCHANGED <<mounted, chatId, chat, chatLoading, newMessage>>
    /\ UNCHANGED <<closureMessages, pollReqs, loadReqs, serverMsgs, clock>>
    /\ ChatFrame

\* a catch block that leaves the input empty
handleSendRejectedCleared(req) ==
    /\ req \in sendReqs
    /\ sendReqs' = sendReqs \ {req}
    /\ newMessage' = <<>>
    /\ sending' = FALSE
    /\ lastOp' = "handleSendRejected" /\ pre' = NoPre /\ cue' = "error"
    /\ UNCHANGED <<mounted, chatId, chat, messages, chatLoading>>
    /\ UNCHANGED <<closureMessages, pollReqs, loadReqs, serverMsgs, clock>>
    /\ ChatFrame

\* handleSend, catch and finally: the text goes back into the input
handleSendRejected(req) ==
    /\ req \in sendReqs
    /\ sendReqs' = sendReqs \ {req}
    /\ newMessage' = req.text
    /\ sending' = FALSE
    /\ lastOp' = "handleSendRejected" /\ pre' = NoPre /\ cue' = "error"
    /\ UNCHANGED <<mounted, chatId, chat, messages, chatLoading>>
    /\ UNCHANGED <<closureMessages, pollReqs, loadReqs, serverMsgs, clock>>
    /\ ChatFrame

\* the other party's message reaches the server
messageArrives(c) ==
    /\ clock < MaxMsgs
    /\ clock' = clock + 1
    /\ serverMsgs' = Append(serverMsgs, Message(clock + 1, c))
    /\ lastOp' = "messageArrives" /\ pre' = NoPre /\ cue' = "none"
    /\ UNCHANGED <<mounted, chatId, chat, messages, chatLoading, newMessage, sending>>
    /\ UNCHANGED <<closureMessages, pollReqs, loadReqs, sendReqs>>
    /\ ChatFrame

\* the conversation opened from the chat list is c, the one chatsApi.create answers
\* with for the listing is d
NextChat ==
    \/ AuthDone(TRUE, FALSE)
    \/ handleTabChange("messages") /\ ChatRoomLifecycle
    \/ \E id \in {<<"c">>} : handleOpenChatRoom(id) /\ ChatRoomLifecycle
    \/ \E id \in {<<"a">>} : handleOpenListing(id) /\ ChatRoomLifecycle
    \/ handleOpenChat /\ ChatRoomLifecycle
    \/ \E id \in {<<"d">>} : handleOpenChatResolved(id) /\ ChatRoomLifecycle
    \/ handleBack /\ ChatRoomLifecycle
    \/ \E req \in loadReqs : loadAnswered(req)
    \/ \E req \in loadReqs : loadChatResolved(req)
    \/ \E req \in loadReqs : loadChatRejected(req)
    \/ pollMessages
    \/ \E i \in 1..Len(pollReqs) : pollAnswered(i)
    \/ \E i \in 1..Len(pollReqs) : pollMessagesResolved(i)
    \/ \E i \in 1..Len(pollReqs) : pollMessagesRejected(i)
    \/ \E text \in Texts : setNewMessage(text)
    \/ handleSend
    \/ \E req \in sendReqs : sendAnswered(req)
    \/ \E req \in sendReqs : handleSendResolved(req)
    \/ \E req \in sendReqs : handleSendRejected(req)
    \/ \E c \in ChatIds : messageArrives(c)

SpecChat == Init /\ [][NextChat]_vars

\* C6: under any interleaving of poll ticks and sends the message list holds every
\* message at most once and in arrival order.
C6_ListHasEachMessageOnceInOrder ==
    \A i \in 1..Len(messages) : \A j \in 1..Len(messages) :
        i < j => created_at(messages[i]) < created_at(messages[j])

\* C7: a chat poll whose response is empty issues no state update, leaves the message
\* list as it was and fires no haptic cue.
C7_EmptyPollChangesNothing ==
    [][(lastOp' = "pollMessagesResolved" /\ pre'.k = 0)
          => (messages' = messages /\ ~pre'.setMessages /\ cue' = "none")]_vars

\* C7 witness: an empty response was handled while the list shown was not empty
C7_Witness ==
    /\ lastOp = "pollMessagesResolved" /\ pre.k = 0
    /\ Len(messages) > 0 /\ cue = "none"

(***************************************************************************)
(* Properties of navigation (Spec).                                        *)
(***************************************************************************)
\* C11: every step that changes the Active Tab leaves the Page State equal to main
\* (tab bar, toast click-through, chat opened from a listing, create/edit success,
\* create-listing action of the My Listings page).
C11_TabChangeLeavesMain ==
    [][activeTab' # activeTab => page' = PageMain]_vars

\* C12: goBack sets the Page State to main and leaves the Active Tab, the unread
\* count and the unread baseline as they were.
C12_GoBackFrame ==
    [][lastOp' = "handleBack" =>
          /\ page' = PageMain
          /\ activeTab' = activeTab
          /\ unreadCount' = unreadCount
          /\ lastUnreadRef' = lastUnreadRef]_vars

\* C12 witness: back from a chat room opened under the messages tab, with unread
\* messages counted in the meantime
C12_Witness ==
    /\ lastOp = "handleBack" /\ page = PageMain
    /\ activeTab = "messages" /\ unreadCount > 0 /\ lastUnreadRef > 0

(***************************************************************************)
(* Properties of the deep-link effect (SpecDeepLink).                      *)
(***************************************************************************)
\* C13: deep-link resolution runs at most once in a session, at the step that ends
\* the loading of authentication; no later event (the host's web-app object
\* changing) runs it again, so a listing the user left is not opened a second time.
C13_DeepLinkRunsOnce ==
    [][lastOp' = "handleDeepLink" => (isLoading /\ ~isLoading')]_vars

(***************************************************************************)
(* SpecSession: the unread poller in a session that can end.  When         *)
(* isAuthenticated becomes false the effect on [isAuthenticated, ...]      *)
(* (App.tsx l.288-321) is cleaned up: clearInterval(interval).  The        *)
(* requests already sent keep their continuation.                          *)
(***************************************************************************)
\* useAuth() reports the end of the session
sessionEnds ==
    /\ ~isLoading /\ isAuthenticated
    /\ isAuthenticated' = FALSE
    /\ hasPasscode' = FALSE
    /\ lastOp' = "sessionEnds"
    /\ pre' = NoPre
    /\ cue' = "none"
    /\ UNCHANGED <<isLoading, authError, webApp, startParam, startapp, hash>>
    /\ UNCHANGED <<appVars, toastVars, lockVars, pageVars, chatVars>>
    /\ UNCHANGED <<lastTarget, observed, raisedAt, consecutiveFails>>

NextSession ==
    \/ \E ok \in BOOLEAN : AuthDone(ok, FALSE)
    \/ sessionEnds
    \/ \E tab \in TabType : handleTabChange(tab) /\ UNCHANGED chatVars
    \/ checkUnreadTick
    \/ \E c \in 0..AppMaxCount : ToastRoom(AppMaxToasts, c) /\ checkUnreadResolved(c)
    \/ checkUnreadFailed

SpecSession == Init /\ [][NextSession]_vars

\* C14: while the session is not authenticated the poller starts no unread request,
\* raises no toast and does not change the unread count, a request that was in
\* flight when authentication ended included.
C14_PollerOnlyWhileAuthenticated ==
    [][(~isAuthenticated /\ ~isAuthenticated') =>
          /\ unreadReqs' <= unreadReqs
          /\ toasts' = toasts
          /\ unreadCount' = unreadCount]_vars

(***************************************************************************)
(* SpecChatLive: SpecChat with the scheduling the chat poller relies on:   *)
(* the interval keeps firing, the server answers, and the continuations of *)
(* the answered requests run.                                              *)
(***************************************************************************)
SpecChatLive ==
    /\ SpecChat
    /\ WF_vars(pollMessages)
    /\ WF_vars(\E i \in 1..Len(pollReqs) : pollAnswered(i))
    /\ WF_vars(\E i \in 1..Len(pollReqs) : pollMessagesResolved(i))
    /\ WF_vars(\E req \in loadReqs : loadAnswered(req))
    /\ WF_vars(\E req \in loadReqs : loadChatResolved(req))

InList(m) == \E i \in 1..Len(messages) : messages[i] = m

InServer(m) == \E i \in 1..Len(serverMsgs) : serverMsgs[i] = m

\* the room of chat c is on screen and the server holds message n of c, newer than
\* the last message of the list shown
NewerOnServer(n, c) ==
    /\ mounted /\ chatId = c /\ ChatRendered
    /\ messages # <<>>
    /\ InServer(Message(n, c))
    /\ n > created_at(messages[Len(messages)])

\* an answered poll cannot be merged within the bound of the list
ListBoundReached ==
    \E i \in 1..Len(pollReqs) :
        pollReqs[i].answered /\ Len(messages) + Len(pollReqs[i].data) > MaxList

\* the message is in the list, or the premise of the claim has ended: the room was
\* left, a poll failed, or the bound of the model was reached
ShownOrExcused(n, c) ==
    \/ InList(Message(n, c))
    \/ ~mounted \/ chatId # c
    \/ lastOp = "pollMessagesRejected"
    \/ ListBoundReached

\* C15: while a chat room stays open and polls succeed, every message the server
\* holds that is newer than the last message of the list eventually appears in it.
C15_NewMessagesAppear ==
    \A n \in 1..MaxMsgs : \A c \in ChatIds :
        NewerOnServer(n, c) ~> ShownOrExcused(n, c)

\* C16: a poll tick asks for the messages newer than the last message of the list as
\* it is when the tick fires, and issues no request exactly when that list is empty.
C16_PollAnchorsOnCurrentList ==
    [][lastOp' = "pollMessages" =>
          IF messages = <<>>
          THEN pollReqs' = pollReqs
          ELSE /\ Len(pollReqs') = Len(pollReqs) + 1
               /\ pollReqs'[Len(pollReqs')].since = created_at(messages[Len(messages)])]_vars

\* C17: once the chat id has changed (or the room is unmounted) no poll is issued
\* for the old chat id, and no response that belongs to the old chat id, of the
\* initial load or of a poll, changes the message list shown for the current chat.
C17_NoEffectOfOldChat ==
    [][/\ \A i \in 1..Len(pollReqs') :
              i > Len(pollReqs) => pollReqs'[i].chat = chatId'
       /\ \A req \in loadReqs :
              (req.chat # chatId /\ req.answered /\ req \notin loadReqs' /\ mounted')
                  => messages' = messages
       /\ \A i \in 1..Len(pollReqs) :
              (pollReqs[i].chat # chatId /\ pollReqs' = RemoveAt(pollReqs, i) /\ mounted')
                  => messages' = messages]_vars

(***************************************************************************)
(* SpecPollers: the two pollers side by side, the unread poller of         *)
(* AppContent and the message poller of an open chat room; the unread      *)
(* requests fail or succeed, the chat polls fail.                          *)
(***************************************************************************)
NextPollers ==
    \/ AuthDone(TRUE, FALSE)
    \/ handleTabChange("messages") /\ ChatRoomLifecycle
    \/ \E id \in {<<"c">>} : handleOpenChatRoom(id) /\ ChatRoomLifecycle
    \/ \E id \in {<<"a">>} : handleOpenListing(id) /\ ChatRoomLifecycle
    \/ handleOpenChat /\ ChatRoomLifecycle
    \/ \E id \in {<<"d">>} : handleOpenChatResolved(id) /\ ChatRoomLifecycle
    \/ handleBack /\ ChatRoomLifecycle
    \/ \E req \in loadReqs : loadAnswered(req)
    \/ \E req \in loadReqs : loadChatResolved(req)
    \/ pollMessages
    \/ \E i \in 1..Len(pollReqs) : pollMessagesRejected(i)
    \/ \E c \in ChatIds : messageArrives(c)
    \/ checkUnreadTick
    \/ \E c \in 0..AppMaxCount : ToastRoom(AppMaxToasts, c) /\ checkUnreadResolved(c)
    \/ checkUnreadFailed

SpecPollers == Init /\ [][NextPollers]_vars

\* C18: a failed poll tick, of the unread count or of the chat messages, raises no
\* toast and no error state, leaves the unread count, the unread baseline and the
\* message list as they were, and the next tick of the interval can still run.
C18_FailedTickSwallowed ==
    /\ [][(lastOp' \in {"checkUnreadFailed", "pollMessagesRejected"}) =>
              /\ toasts' = toasts
              /\ authError' = authError /\ error' = error
              /\ chat' = chat /\ chatLoading' = chatLoading
              /\ unreadCount' = unreadCount
              /\ lastUnreadRef' = lastUnreadRef
              /\ messages' = messages
              /\ cue' = "none"]_vars
    /\ [](lastOp = "checkUnreadFailed" => ENABLED checkUnreadTick)
    /\ [](lastOp = "pollMessagesRejected" => ENABLED pollMessages)

\* C18 witness: a chat poll failed in a room that shows messages, in a session whose
\* unread count and baseline are nonzero
C18_Witness ==
    /\ lastOp = "pollMessagesRejected"
    /\ messages # <<>> /\ ChatRendered
    /\ unreadCount > 0 /\ lastUnreadRef > 0

\* C19: every showToast appends exactly one toast, whose id differs from the id of
\* every toast already queued; the ids in the queue are pairwise distinct; and a
\* step that removes by id takes at most one toast out of the queue.
C19_ToastIdsDistinct ==
    /\ [](\A i, j \in 1..Len(toasts) : i # j => toasts[i].id # toasts[j].id)
    /\ [][lastOp' = "showToast" =>
              /\ Len(toasts') = Len(toasts) + 1
              /\ \A i \in 1..Len(toasts) :
                     toasts'[i] = toasts[i] /\ toasts'[Len(toasts')].id # toasts[i].id]_vars
    /\ [][Len(toasts') >= Len(toasts) - 1]_vars

\* C20: hideToast(id) leaves no toast of that id in the queue and keeps every other
\* toast, in the order they were created in; with no toast of that id in the queue
\* it leaves the queue as it was; calling it again changes nothing more.
C20_HideToastRemovesThatId ==
    [][lastOp' = "hideToast" =>
          LET id   == pre'.id
              kept == {i \in 1..Len(toasts) : toasts[i].id # id}
              nth(k) == CHOOSE i \in kept : Cardinality({j \in kept : j < i}) = k - 1
          IN  /\ \A k \in 1..Len(toasts') : toasts'[k].id # id
              /\ Len(toasts') = Cardinality(kept)
              /\ \A k \in 1..Len(toasts') : toasts'[k] = toasts[nth(k)]
              /\ (kept = 1..Len(toasts)) => toasts' = toasts
              /\ removeById(toasts', id) = toasts']_vars

\* C20 witness: hideToast took one of two toasts out and the other one stayed
C20_Witness ==
    /\ lastOp = "hideToast" /\ pre.op = "hideToast"
    /\ pre.len = 2 /\ Len(toasts) = 1
    /\ toasts[1].id # pre.id

(***************************************************************************)
(* SpecToastClick: the body of a ToastItem is clicked (Skeleton.tsx        *)
(* l.235-254).  The timers of SpecToast run; the fairness conditions say   *)
(* that time passes and that a timer whose delay has passed runs.          *)
(***************************************************************************)
\* a handler that is called for every toast, with or without onClick
clickInvokesAlways(toast) == TRUE

\* if (toast.onClick)
clickInvokes(toast) == toast.onClick # "none"

\* ToastItem.handleClick on the i-th toast: toast.onClick(); handleDismiss().
\* The clock of the model is bounded: a click is taken while an instant remains
\* for the 200 ms of its timer.
handleClick(i) ==
    /\ i \in 1..Len(toasts)
    /\ now < MaxClock
    /\ timers' = IF clickInvokes(toasts[i])
                 THEN timers \cup {[id |-> toasts[i].id, kind |-> "dismiss", ripe |-> FALSE]}
                 ELSE timers
    /\ lastOp' = "handleClick"
    /\ pre' = [op |-> "handleClick", toast |-> toasts[i], invoked |-> clickInvokes(toasts[i])]
    /\ cue' = "none"
    /\ UNCHANGED <<appEnv, appVars, toasts, now, lockVars, pageVars, chatVars>>
    /\ UNCHANGED <<lastTarget, observed, raisedAt, consecutiveFails>>

NextToastClick ==
    \/ \E toast \in ToastInputs : showToast(toast)
    \/ \E i \in 1..Len(toasts) : handleClick(i)
    \/ \E tm \in timers : timerFires(tm)
    \/ Tick(MaxClock)

SpecToastClick ==
    /\ Init /\ [][NextToastClick]_vars
    /\ WF_vars(Tick(MaxClock))
    /\ WF_vars(\E tm \in timers : tm.kind = "dismiss" /\ timerFires(tm))

\* C21: a click on a toast with an onClick handler calls the handler and the toast
\* leaves the queue afterwards; a click on a toast without a handler calls nothing,
\* sets no timer and leaves the queue as it is.
C21_ClickInvokesThenDismisses ==
    /\ [][lastOp' = "handleClick" =>
              /\ toasts' = toasts
              /\ IF pre'.toast.onClick = "none"
                 THEN ~pre'.invoked /\ timers' = timers
                 ELSE /\ pre'.invoked
                      /\ \E tm \in timers' : tm.id = pre'.toast.id /\ tm.kind = "dismiss"]_vars
    /\ \A id \in 0..MaxClock :
           (lastOp = "handleClick" /\ pre.invoked /\ pre.toast.id = id)
               ~> (\A k \in 1..Len(toasts) : toasts[k].id # id)

\* C21 witness: the timer set by a click on a toast with a handler has taken that
\* toast out of the queue; a toast without a handler, still to be dismissed by its
\* own timer, stays
C21_Witness ==
    /\ lastOp = "hideToast" /\ pre.op = "timer"
    /\ Len(toasts) = 1 /\ toasts[1].onClick = "none" /\ toasts[1].id # pre.id
    /\ \E tm \in timers : tm.id = toasts[1].id

(***************************************************************************)
(* SpecGate: PasscodeLock in front of the pages.  A session of a user with *)
(* or without a passcode; the lock's keypad while the lock is rendered,    *)
(* the navigation once the pages are.                                      *)
(***************************************************************************)
\* what AppContent returns (App.tsx l.405-519), in the order of its tests
Rendered ==
    IF isLoading THEN "loading"
    ELSE IF authError THEN "error"
    ELSE IF needsPasscodeLock THEN "lock"
    ELSE Screen(page)

NextGate ==
    \/ \E pc \in BOOLEAN : AuthDone(TRUE, pc)
    \/ \E d \in Digits : handleDigit(d)
    \/ handleDelete
    \/ handleSubmit
    \/ handleSubmitVerified
    \/ handleSubmitFailed
    \/ handleResetRequest
    \/ \E tab \in TabType : handleTabChange(tab) /\ UNCHANGED chatVars
    \/ \E id \in {<<"a">>} : handleOpenListing(id) /\ UNCHANGED chatVars
    \/ handleBack /\ UNCHANGED chatVars

SpecGate == InitLock /\ [][NextGate]_vars

\* C22: while the authenticated user has a passcode and has not unlocked, AppContent
\* returns the lock and no page; isUnlocked becomes true only in the continuation of
\* a verifyPasscode call that succeeded for the 4 digits entered; and once true it
\* stays true.
C22_LockGatesPages ==
    /\ []((isAuthenticated /\ hasPasscode /\ ~isUnlocked) => Rendered = "lock")
    /\ [][(~isUnlocked /\ isUnlocked') =>
              /\ lastOp' = "handleSubmitVerified"
              /\ loading /\ Len(passcode) = 4 /\ passcode = secret]_vars
    /\ [][isUnlocked => isUnlocked']_vars

\* C22 witness: the right code was verified and the user navigates in the pages of
\* a session that has a passcode
C22_Witness ==
    /\ isUnlocked /\ hasPasscode /\ passcode = secret /\ ~loading
    /\ lastOp = "handleOpenListing" /\ Rendered = "listing"

\* C23: once 4 digits are entered the lock leaves that state only through the
\* verification of those 4 digits: the digits stay as they are until the lock is
\* unlocked, or they are reset to none together with the error state by the failed
\* verification.
C23_SubmitIsOnlyWayOut ==
    [][(LockRendered /\ Len(passcode) = 4) =>
          \/ passcode' = passcode
          \/ passcode' = <<>> /\ error' /\ lastOp' = "handleSubmitFailed"]_vars

(***************************************************************************)
(* SpecSettings: PasscodeSettings (Skeleton.tsx l.446-613), mounted by a   *)
(* parent that closes it on onClose and on onSuccess.  `secret` is the     *)
(* passcode the server holds, <<>> when the user has none.  A request is   *)
(* the call, the server's answer, and the continuation in the component.   *)
(***************************************************************************)
\* const currentInput = step === 'current' ? currentPasscode : step === 'new' ? ...
currentInput(st, current, new, confirm) ==
    IF st = "current" THEN current ELSE IF st = "new" THEN new ELSE confirm

\* useState('current'), then the effect: if (!hasPasscode) setStep('new')
initialStep(has) == IF has THEN "current" ELSE "new"

\* newPasscode !== confirmPasscode, negated
codesMatch(new, confirm) == new = confirm

\* the auto-advance effect on [currentInput], after a step that set the primed
\* state: when the input's value changed the old timer is cleared, and a new one
\* is set, with the handleNext of that render, at 4 digits and no error message
advanceEffect ==
    LET before == currentInput(step, currentPasscode, newPasscode, confirmPasscode)
        after  == currentInput(step', currentPasscode', newPasscode', confirmPasscode')
    IN  advanceTimer' =
            IF after = before THEN advanceTimer
            ELSE IF Len(after) = 4 /\ settingsError' = ""
                 THEN <<[step |-> step', currentInput |-> after,
                         newPasscode |-> newPasscode', confirmPasscode |-> confirmPasscode']>>
                 ELSE <<>>

PasscodeReq(api, code) == [api |-> api, code |-> code, answered |-> FALSE, ok |-> FALSE]

SettingsFrame ==
    /\ UNCHANGED <<appEnv, appVars, toastVars, chatVars>>
    /\ UNCHANGED <<passcode, error, loading, attempts, submitTimer>>
    /\ UNCHANGED <<settingsHasPasscode, lastTarget, observed, raisedAt, consecutiveFails>>
    /\ UNCHANGED <<listingsVars, formVars>>

\* setCurrentInput(value): the setter of the step shown
setCurrentInput(value) ==
    /\ currentPasscode' = IF step = "current" THEN value ELSE currentPasscode
    /\ newPasscode' = IF step = "new" THEN value ELSE newPasscode
    /\ confirmPasscode' = IF step = "confirm" THEN value ELSE confirmPasscode

\* PasscodeSettings.handleDigit, from the keypad (disabled while loading)
settingsDigit(digit) ==
    /\ settingsOpen /\ ~settingsLoading
    /\ Len(currentInput(step, currentPasscode, newPasscode, confirmPasscode)) < 4
    /\ settingsError' = ""
    /\ setCurrentInput(Append(currentInput(step, currentPasscode, newPasscode, confirmPasscode),
                              digit))
    /\ UNCHANGED <<settingsOpen, step, settingsLoading, passcodeReqs, secret>>
    /\ advanceEffect
    /\ lastOp' = "settingsDigit" /\ pre' = NoPre /\ cue' = "impact"
    /\ SettingsFrame

\* PasscodeSettings.handleDelete
settingsDelete ==
    /\ settingsOpen /\ ~settingsLoading
    /\ LET input == currentInput(step, currentPasscode, newPasscode, confirmPasscode)
       IN  setCurrentInput(SubSeq(input, 1, Len(input) - 1))
    /\ UNCHANGED <<settingsOpen, step, settingsError, settingsLoading, passcodeReqs, secret>>
    /\ advanceEffect
    /\ lastOp' = "settingsDelete" /\ pre' = NoPre /\ cue' = "impact"
    /\ SettingsFrame

\* the 300 ms timer runs the handleNext of the render that set it
handleNext ==
    /\ settingsOpen /\ advanceTimer # <<>>
    /\ LET cl == advanceTimer[1]
       IN  IF Len(cl.currentInput) # 4
           THEN /\ advanceTimer' = <<>>
                /\ UNCHANGED <<step, currentPasscode, newPasscode, confirmPasscode,
                               settingsError, settingsLoading, passcodeReqs>>
           ELSE IF cl.step = "current"
           THEN /\ Len(passcodeReqs) < MaxPasscodeReqs
                /\ settingsLoading' = TRUE
                /\ passcodeReqs' = Append(passcodeReqs, PasscodeReq("verify", cl.currentInput))
                /\ advanceTimer' = <<>>
                /\ UNCHANGED <<step, currentPasscode, newPasscode, confirmPasscode, settingsError>>
           ELSE IF cl.step = "new"
           THEN /\ step' = "confirm"
                /\ UNCHANGED <<currentPasscode, newPasscode, confirmPasscode,
                               settingsError, settingsLoading, passcodeReqs>>
                /\ advanceEffect
           ELSE IF ~codesMatch(cl.newPasscode, cl.confirmPasscode)
           THEN /\ settingsError' = "mismatch"
                /\ confirmPasscode' = <<>>
                /\ UNCHANGED <<step, currentPasscode, newPasscode, settingsLoading, passcodeReqs>>
                /\ advanceEffect
           ELSE /\ Len(passcodeReqs) < MaxPasscodeReqs
                /\ settingsLoading' = TRUE
                /\ passcodeReqs' = Append(passcodeReqs, PasscodeReq("set", cl.newPasscode))
                /\ advanceTimer' = <<>>
                /\ UNCHANGED <<step, currentPasscode, newPasscode, confirmPasscode, settingsError>>
    /\ lastOp' = "handleNext" /\ pre' = NoPre /\ cue' = "none"
    /\ UNCHANGED <<settingsOpen, secret>>
    /\ SettingsFrame

\* the Remove button, rendered under hasPasscode && step === 'current' and enabled
\* at 4 digits while not loading: handleRemove up to its await
handleRemove ==
    /\ settingsOpen /\ settingsHasPasscode /\ step = "current"
    /\ ~settingsLoading
    /\ Len(currentInput(step, currentPasscode, newPasscode, confirmPasscode)) = 4
    /\ Len(passcodeReqs) < MaxPasscodeReqs
    /\ settingsLoading' = TRUE
    /\ passcodeReqs' =
           Append(passcodeReqs,
                  PasscodeReq("remove",
                              currentInput(step, currentPasscode, newPasscode, confirmPasscode)))
    /\ lastOp' = "handleRemove" /\ pre' = NoPre /\ cue' = "none"
    /\ UNCHANGED <<settingsOpen, step, currentPasscode, newPasscode, confirmPasscode>>
    /\ UNCHANGED <<settingsError, advanceTimer, secret>>
    /\ SettingsFrame

\* the server answers a passcode request: verify and remove succeed on the stored
\* code, set succeeds or fails; remove and set change the stored code
passcodeAnswered(i, accepted) ==
    /\ i \in 1..Len(passcodeReqs) /\ ~passcodeReqs[i].answered
    /\ LET req == passcodeReqs[i]
           ok  == IF req.api = "set" THEN accepted ELSE verifyPasscode(req.code)
       IN  /\ passcodeReqs' = [passcodeReqs EXCEPT ![i].answered = TRUE, ![i].ok = ok]
           /\ secret' = IF ~ok THEN secret
                        ELSE IF req.api = "set" THEN req.code
                        ELSE IF req.api = "remove" THEN <<>>
                        ELSE secret
    /\ lastOp' = "passcodeAnswered" /\ pre' = NoPre /\ cue' = "none"
    /\ UNCHANGED <<settingsOpen, step, currentPasscode, newPasscode, confirmPasscode>>
    /\ UNCHANGED <<settingsError, settingsLoading, advanceTimer>>
    /\ SettingsFrame

\* the continuation of handleNext or handleRemove after its await; it sets the
\* state of a mounted component only
passcodeResolved(i) ==
    /\ i \in 1..Len(passcodeReqs) /\ passcodeReqs[i].answered
    /\ passcodeReqs' = RemoveAt(passcodeReqs, i)
    /\ LET req == passcodeReqs[i]
       IN  IF ~settingsOpen
           THEN /\ UNCHANGED <<settingsOpen, step, currentPasscode, newPasscode, confirmPasscode>>
                /\ UNCHANGED <<settingsError, settingsLoading, advanceTimer>>
                /\ cue' = IF req.ok /\ req.api # "verify" THEN "success" ELSE "none"
           ELSE IF req.api = "verify" /\ req.ok
           THEN /\ step' = "new"
                /\ settingsLoading' = FALSE
                /\ UNCHANGED <<settingsOpen, currentPasscode, newPasscode, confirmPasscode>>
                /\ UNCHANGED settingsError
                /\ advanceEffect
                /\ cue' = "none"
           ELSE IF req.api = "set" /\ ~req.ok
           THEN /\ settingsError' = "failed"
                /\ settingsLoading' = FALSE
                /\ UNCHANGED <<settingsOpen, step, currentPasscode, newPasscode, confirmPasscode>>
                /\ UNCHANGED advanceTimer
                /\ cue' = "none"
           ELSE IF ~req.ok
           THEN /\ settingsError' = "wrong"
                /\ currentPasscode' = <<>>
                /\ settingsLoading' = FALSE
                /\ UNCHANGED <<settingsOpen, step, newPasscode, confirmPasscode>>
                /\ advanceEffect
                /\ cue' = "none"
           ELSE /\ settingsOpen' = FALSE
                /\ settingsLoading' = FALSE
                /\ advanceTimer' = <<>>
                /\ UNCHANGED <<step, currentPasscode, newPasscode, confirmPasscode, settingsError>>
                /\ cue' = "success"
    /\ lastOp' = "passcodeResolved"
    /\ pre' = [op |-> "passcodeResolved", api |-> passcodeReqs[i].api, ok |-> passcodeReqs[i].ok]
    /\ UNCHANGED secret
    /\ SettingsFrame

\* the X button: the parent unmounts the component, the effect's cleanup clears
\* the timer
onClose ==
    /\ settingsOpen
    /\ settingsOpen' = FALSE
    /\ advanceTimer' = <<>>
    /\ lastOp' = "onClose" /\ pre' = NoPre /\ cue' = "none"
    /\ UNCHANGED <<step, currentPasscode, newPasscode, confirmPasscode>>
    /\ UNCHANGED <<settingsError, settingsLoading, passcodeReqs, secret>>
    /\ SettingsFrame

\* PasscodeSettings after its first render and effects, for a user with or without
\* a passcode
InitSettings ==
    /\ AppInit /\ NoDeepLink /\ ToastInit /\ ChatInit /\ ListingsInit /\ FormInit /\ HistInit
    /\ passcode = <<>> /\ error = FALSE /\ loading = FALSE /\ attempts = 0
    /\ submitTimer = FALSE
    /\ settingsOpen = TRUE
    /\ settingsHasPasscode \in BOOLEAN
    /\ secret \in IF settingsHasPasscode THEN Secrets ELSE {<<>>}
    /\ step = initialStep(settingsHasPasscode)
    /\ currentPasscode = <<>> /\ newPasscode = <<>> /\ confirmPasscode = <<>>
    /\ settingsError = "" /\ settingsLoading = FALSE
    /\ advanceTimer = <<>> /\ passcodeReqs = <<>>

\* the codes the user of the model types: the input is a beginning of one of them
TypedCode(input) == \E code \in Secrets : Len(input) <= Len(code) /\ SubSeq(code, 1, Len(input)) = input

NextSettings ==
    \/ \E d \in Digits :
          /\ TypedCode(Append(currentInput(step, currentPasscode, newPasscode, confirmPasscode), d))
          /\ settingsDigit(d)
    \/ settingsDelete
    \/ handleNext
    \/ handleRemove
    \/ \E i \in 1..Len(passcodeReqs), accepted \in BOOLEAN : passcodeAnswered(i, accepted)
    \/ \E i \in 1..Len(passcodeReqs) : passcodeResolved(i)
    \/ onClose

SpecSettings == InitSettings /\ [][NextSettings]_vars

\* C24: settings mode starts at enter-new when the user has no passcode; the step
\* changes only from verify-current to enter-new, in the continuation of a
\* verification that succeeded, and from enter-new to confirm-new; a confirmation
\* that differs from the new code clears the confirm input only; and every
\* setPasscode call carries a new code equal to its confirmation.
C24_SettingsSteps ==
    /\ [](~settingsHasPasscode => step # "current")
    /\ [][step' # step =>
              \/ /\ step = "current" /\ step' = "new"
                 /\ \E i \in 1..Len(passcodeReqs) :
                        /\ passcodeReqs[i].api = "verify"
                        /\ passcodeReqs[i].answered /\ passcodeReqs[i].ok
                        /\ Len(passcodeReqs[i].code) = 4
                        /\ passcodeReqs' = RemoveAt(passcodeReqs, i)
              \/ step = "new" /\ step' = "confirm" /\ Len(newPasscode) = 4]_vars
    /\ [][(lastOp' = "handleNext" /\ step = "confirm" /\ newPasscode # confirmPasscode) =>
              /\ step' = "confirm" /\ newPasscode' = newPasscode
              /\ currentPasscode' = currentPasscode /\ confirmPasscode' = <<>>
              /\ passcodeReqs' = passcodeReqs]_vars
    /\ [][\A i \in 1..Len(passcodeReqs') :
              (Len(passcodeReqs') > Len(passcodeReqs) /\ i = Len(passcodeReqs')
                   /\ passcodeReqs'[i].api = "set") =>
                  /\ passcodeReqs'[i].code = newPasscode
                  /\ newPasscode = confirmPasscode /\ Len(newPasscode) = 4]_vars

\* C25: while a remove request is in flight, and after it succeeded, no verify
\* request is issued and the step does not go on to enter-new.
C25_RemoveIsTerminal ==
    [][(\E i \in 1..Len(passcodeReqs) : passcodeReqs[i].api = "remove") =>
          /\ ~(step = "current" /\ step' = "new")
          /\ (Len(passcodeReqs') > Len(passcodeReqs) =>
                  passcodeReqs'[Len(passcodeReqs')].api # "verify")]_vars

(***************************************************************************)
(* SpecSend: the input and the send button of one ChatRoomPage             *)
(* (ChatRoomPage.tsx l.66-85, l.199-216), with texts that have blanks      *)
(* around them.                                                            *)
(***************************************************************************)
SendTexts == {<<"h">>, <<" ", "h">>, <<"h", " ">>, <<" ">>}

NextSend ==
    \/ AuthDone(TRUE, FALSE)
    \/ handleTabChange("messages") /\ ChatRoomLifecycle
    \/ \E id \in {<<"c">>} : handleOpenChatRoom(id) /\ ChatRoomLifecycle
    \/ \E req \in loadReqs : loadAnswered(req)
    \/ \E req \in loadReqs : loadChatResolved(req)
    \/ \E text \in SendTexts : setNewMessage(text)
    \/ handleSend
    \/ \E req \in sendReqs : sendAnswered(req)
    \/ \E req \in sendReqs : handleSendResolved(req)
    \/ \E req \in sendReqs : handleSendRejected(req)
    \/ \E c \in {<<"c">>} : messageArrives(c)

SpecSend == Init /\ [][NextSend]_vars

\* C26: handleSend sends the trimmed text of the input; when the request fails the
\* input holds exactly the text that was sent, the message list is as it was, the
\* sending flag is false and the error cue is given, so that handleSend can send
\* the same text again.
C26_FailedSendRestoresInput ==
    /\ [][lastOp' = "handleSend" =>
              \E req \in sendReqs' \ sendReqs : req.text = trim(newMessage) /\ req.chat = chatId]_vars
    /\ [][lastOp' = "handleSendRejected" =>
              /\ \E req \in sendReqs \ sendReqs' : newMessage' = req.text
              /\ messages' = messages
              /\ ~sending'
              /\ cue' = "error"]_vars
    /\ [](lastOp = "handleSendRejected" =>
              (newMessage # <<>> /\ trim(newMessage) = newMessage /\ ENABLED handleSend))

\* C26 witness: a send failed in a room that shows a message; the text sent is
\* back in the input and no request is left
C26_Witness ==
    /\ lastOp = "handleSendRejected"
    /\ newMessage = <<"h">> /\ messages # <<>> /\ ~sending /\ sendReqs = {}

\* C27: a failed foreground action (here: opening a chat from a listing, sending a
\* message) gives the haptic error cue and shows something: a toast is raised or
\* an error state is set.
C27_FailureGivesFeedback ==
    [][lastOp' \in {"handleOpenChatRejected", "handleSendRejected"} =>
          /\ cue' = "error"
          /\ \/ Len(toasts') > Len(toasts)
             \/ authError' /\ ~authError
             \/ error' /\ ~error]_vars

\* C28: whenever the pages of an authenticated session are rendered, either a
\* full-screen page (each has a back action) is shown or the tab shell is shown
\* together with the bottom navigation.
C28_WayBackToMain ==
    (Visible /\ isAuthenticated) => (Screen(page) # "shell" \/ BottomNavVisible)

(***************************************************************************)
(* SpecMyListings: MyListingsPage (src/unnamed/part_003 l.16-72) after its *)
(* list was loaded, the user deleting listings and marking them as sold.   *)
(* handleDelete and handleMarkSold hold the `listings` of the render they  *)
(* were called in; the row's menu stays open until the request is over,    *)
(* and the menus of the other rows can be opened meanwhile.                *)
(***************************************************************************)
MyListingIds == {<<"a">>, <<"b">>}

Listing(id, status) == [id |-> id, status |-> status]

\* listings.filter(l => l.id !== listingId)
withoutListing(list, id) == SelectSeq(list, LAMBDA l : l.id # id)

\* listings.map(l => l.id === listingId ? { ...l, status: 'sold' } : l)
withSold(list, id) == [k \in 1..Len(list) |-> IF list[k].id = id THEN Listing(id, "sold") ELSE list[k]]

ListingsFrame ==
    /\ UNCHANGED <<appEnv, appVars, toastVars, lockVars, chatVars, settingsVars, formVars>>
    /\ UNCHANGED <<lastTarget, observed, raisedAt, consecutiveFails>>

\* the menu's delete entry of a row, confirm() answered with OK: handleDelete up
\* to its await
handleDeleteListing(id) ==
    /\ \E k \in 1..Len(listings) : listings[k].id = id
    /\ Len(listingReqs) < MaxListingReqs
    /\ listingReqs' = Append(listingReqs, [api |-> "delete", id |-> id, listings |-> listings])
    /\ lastOp' = "handleDeleteListing" /\ pre' = NoPre /\ cue' = "impact"
    /\ UNCHANGED <<listings, deletedIds, soldIds>>
    /\ ListingsFrame

\* the menu's mark-as-sold entry, shown for an active listing: handleMarkSold up
\* to its await
handleMarkSold(id) ==
    /\ \E k \in 1..Len(listings) : listings[k].id = id /\ listings[k].status = "active"
    /\ Len(listingReqs) < MaxListingReqs
    /\ listingReqs' = Append(listingReqs, [api |-> "markAsSold", id |-> id, listings |-> listings])
    /\ lastOp' = "handleMarkSold" /\ pre' = NoPre /\ cue' = "impact"
    /\ UNCHANGED <<listings, deletedIds, soldIds>>
    /\ ListingsFrame

\* the request succeeded: setListings(...) computed from the listings of the call
listingResolved(i) ==
    /\ i \in 1..Len(listingReqs)
    /\ LET req == listingReqs[i]
       IN  /\ listings' = IF req.api = "delete" THEN withoutListing(req.listings, req.id)
                          ELSE withSold(req.listings, req.id)
           /\ deletedIds' = IF req.api = "delete" THEN deletedIds \cup {req.id} ELSE deletedIds
           /\ soldIds' = IF req.api = "markAsSold" THEN soldIds \cup {req.id} ELSE soldIds
    /\ listingReqs' = RemoveAt(listingReqs, i)
    /\ lastOp' = "listingResolved" /\ pre' = NoPre /\ cue' = "success"
    /\ ListingsFrame

\* the request failed: console.error and the error cue
listingRejected(i) ==
    /\ i \in 1..Len(listingReqs)
    /\ listingReqs' = RemoveAt(listingReqs, i)
    /\ lastOp' = "listingRejected" /\ pre' = NoPre /\ cue' = "error"
    /\ UNCHANGED <<listings, deletedIds, soldIds>>
    /\ ListingsFrame

\* MyListingsPage after loadListings resolved with two active listings
InitMyListings ==
    /\ AppInit /\ NoDeepLink /\ ToastInit /\ LockInit /\ ChatInit
    /\ SettingsInit /\ FormInit /\ HistInit
    /\ listings = <<Listing(<<"a">>, "active"), Listing(<<"b">>, "active")>>
    /\ listingReqs = <<>> /\ deletedIds = {} /\ soldIds = {}

NextMyListings ==
    \/ \E id \in MyListingIds : handleDeleteListing(id)
    \/ \E id \in MyListingIds : handleMarkSold(id)
    \/ \E i \in 1..Len(listingReqs) : listingResolved(i)
    \/ \E i \in 1..Len(listingReqs) : listingRejected(i)

SpecMyListings == InitMyListings /\ [][NextMyListings]_vars

\* C29: a listing whose delete succeeded is not in the list shown, and a listing
\* whose mark-as-sold succeeded is not shown as active.
C29_DeletedAndSoldStay ==
    \A k \in 1..Len(listings) :
        /\ listings[k].id \notin deletedIds
        /\ listings[k].id \in soldIds => listings[k].status = "sold"

(***************************************************************************)
(* SpecForm: the image list of CreateListingPage (src/unnamed/part_001     *)
(* l.438, l.455-502, l.570-607).  An image is modelled by where it came    *)
(* from; a file picked is an image file or a file of another type.         *)
(***************************************************************************)
\* the limit written in handleFileSelect, handleAddPlaceholder and the render
PhotoLimit == 8

\* the files of one selection: e.target.files
FileLists == UNION {[1..n -> {"image", "other"}] : n \in 1..MaxFiles}

\* Array.from(files).slice(0, remainingSlots), for remainingSlots > 0
filesToProcess(files, remainingSlots) ==
    SubSeq(files, 1, IF remainingSlots < Len(files) THEN remainingSlots ELSE Len(files))

\* the files the forEach starts a reader for: file.type.startsWith('image/')
readersStarted(list) == Len(SelectSeq(list, LAMBDA f : f = "image"))

\* the upload and the demo button are rendered
addButtonsShown == Len(images) < PhotoLimit

FormFrame ==
    /\ UNCHANGED <<appEnv, appVars, toastVars, lockVars, chatVars, settingsVars, listingsVars>>
    /\ UNCHANGED <<lastTarget, observed, raisedAt, consecutiveFails>>

\* the upload button opens the file dialog and the user picks files
handleFileSelect(files) ==
    /\ addButtonsShown
    /\ LET started == readersStarted(filesToProcess(files, PhotoLimit - Len(images)))
       IN  /\ pendingReads + started <= MaxReads
           /\ pendingReads' = pendingReads + started
           /\ pre' = [op |-> "handleFileSelect", started |-> started]
    /\ lastOp' = "handleFileSelect" /\ cue' = "none"
    /\ UNCHANGED images
    /\ FormFrame

\* reader.onload: setImages((prev) => [...prev, dataUrl])
readerLoaded ==
    /\ pendingReads > 0
    /\ pendingReads' = pendingReads - 1
    /\ images' = Append(images, "file")
    /\ lastOp' = "readerLoaded" /\ pre' = NoPre /\ cue' = "impact"
    /\ FormFrame

\* the read failed: no onerror handler is set, nothing is added
readerFailed ==
    /\ pendingReads > 0
    /\ pendingReads' = pendingReads - 1
    /\ lastOp' = "readerFailed" /\ pre' = NoPre /\ cue' = "none"
    /\ UNCHANGED images
    /\ FormFrame

\* the demo button
handleAddPlaceholder ==
    /\ addButtonsShown
    /\ IF Len(images) < PhotoLimit
       THEN images' = Append(images, "demo") /\ cue' = "impact"
       ELSE UNCHANGED images /\ cue' = "none"
    /\ lastOp' = "handleAddPlaceholder" /\ pre' = NoPre
    /\ UNCHANGED pendingReads
    /\ FormFrame

\* the X of the image at position index (from 1): images.filter((_, i) => i !== index)
removeImage(index) ==
    /\ index \in 1..Len(images)
    /\ images' = RemoveAt(images, index)
    /\ lastOp' = "removeImage" /\ pre' = NoPre /\ cue' = "impact"
    /\ UNCHANGED pendingReads
    /\ FormFrame

InitForm ==
    /\ AppInit /\ NoDeepLink /\ ToastInit /\ LockInit /\ ChatInit
    /\ SettingsInit /\ ListingsInit /\ FormInit /\ HistInit

NextForm ==
    \/ \E files \in FileLists : handleFileSelect(files)
    \/ readerLoaded
    \/ readerFailed
    \/ handleAddPlaceholder
    \/ \E index \in 1..Len(images) : removeImage(index)

SpecForm == InitForm /\ [][NextForm]_vars

\* C30: the image list of the create-listing form never holds more than 8 images.
C30_AtMostEightImages == Len(images) <= PhotoLimit

====
